---- MODULE Spec2Model ----
(***************************************************************************)
(* Turn-routing state machine of the goal-setting assistant backend:       *)
(* the LangGraph flow (flow.py), its nodes and routers (nodes.py) and the  *)
(* WebSocket handler that stores the per-user conversation history         *)
(* (websocket_handler.py).                                                 *)
(*                                                                         *)
(* The specifications are given over the same variables.                   *)
(*   Spec      one run of the compiled graph on an arbitrary GoalState     *)
(*             (messages in dict and in object form, finished either       *)
(*             way), together with the application of the routers to it.   *)
(*   SpecWS    the WebSocket handler of one authenticated connection:      *)
(*             events arrive, each runs the graph, the result is folded    *)
(*             into user_states.                                           *)
(*   SpecNodes each node function of nodes.py called once on an arbitrary  *)
(*             GoalState, followed by the router of its outgoing edge.     *)
(*   SpecLambda the Lambda handler (lambda_ws.py) of one API Gateway       *)
(*             connection: auth, add_goal, chat and other events.          *)
(*   SpecFair  Spec with the fairness of the executor of the graph.        *)
(*   SpecDB    tools.add_goal and tools.get_goals statement by statement   *)
(*             on the one connection db_conn that all sessions share.      *)
(*   SpecArgs  the args of add_goal from the event to the tool:            *)
(*             emailUpdates and the number of days to the deadline.        *)
(*   SpecConn  the connections of the clients of one user from accept to   *)
(*             close: the auth message, the registry active_users, the     *)
(*             events of the message loop.                                 *)
(*   SpecUsers the handlers of two users interleaving on one event loop.   *)
(*   SpecHuman nodes.human_node await by await, with the events the        *)
(*             client sends on the socket.                                 *)
(*   SpecTitles the add_goal branch of nodes.goal_action_node on the goals *)
(*             and routines of one session.                                *)
(***************************************************************************)
EXTENDS Integers, Sequences, FiniteSets, TLC

VARIABLES
    messages,      \* GoalState["messages"] of the run in progress
    finished,      \* GoalState["finished"]
    goals,         \* GoalState["goals"]   (titles, in insertion order)
    routines,      \* GoalState["routines"] (set of titles that have a routine)
    node,          \* position of the graph run: START, a node name, END, ERROR
    steps,         \* node executions of the run in progress
    route,         \* result of applying maybe_route_goal_tools to the state
    user_states,   \* websocket_handler.user_states[user_id]
    pending,       \* the event the handler is processing, "none" when idle
    before,        \* len(conversation_history) when the last event arrived
    turns,         \* events the handler has completed or aborted
    rare,          \* of these, events other than plain chat and unknown type
    llm_call,      \* the call of llm_with_tools.invoke made by the last node
    tool_runs,     \* the tool invocations made by the last node, in order
    persisted,     \* rows of the goals table, as <<user_id, title>>
    active_users,  \* nodes.active_users[user_id]: a socket, or "none"
    ws_connections,\* user_id of the connection's row in ws_connections
    reply,         \* the last payload the Lambda handler posted back
    db_conn,       \* db_conn.db_conn: the tables and the open transaction
    db_calls,      \* the executions of tools.add_goal and tools.get_goals
    goal_args,     \* the args of an add_goal request on their way to a row
    sockets,       \* the WebSocket connections handle_connection serves
    all_states,    \* websocket_handler.user_states, for every user
    handlers,      \* the event each user's handle_connection is processing
    inbox          \* the events on the user's socket: pending, and received

vars == <<messages, finished, goals, routines, node, steps, route,
          user_states, pending, before, turns, rare,
          llm_call, tool_runs, persisted, active_users,
          ws_connections, reply, db_conn, db_calls, goal_args,
          sockets, all_states, handlers, inbox>>

(* the state of the Lambda handler *)
lambda_state == <<ws_connections, reply>>

(* the process around the graph runs: the shared database connection and  *)
(* the tool executions on it                                               *)
world == <<db_conn, db_calls, goal_args, sockets, all_states, handlers,
           inbox>>

(* what the graph and the handler leave alone outside the node executions *)
effects == <<llm_call, tool_runs, persisted, active_users, lambda_state,
             world>>

----------------------------------------------------------------------------
(* Bounds of the model *)

MaxMsgs == 2        \* longest message list drawn as input of a graph run
MaxSteps == 3       \* node executions explored per run
MaxTurns == 6       \* events handled on the connection
MaxGoals == 2       \* goals held in one session
MaxRoutine == 2    \* rows of the routine that generate_routine returns
MaxDate == 5       \* the dates a deadline names are the days 0..MaxDate
MaxRare == 1        \* review chats, null chats, add_goal and clear_history
                    \* events handled on the connection

(* config.py: config = {"recursion_limit": 100} *)
recursion_limit == 100

(* websocket_handler.trim_conversation_history(history, max_messages=20) *)
max_messages == 20

----------------------------------------------------------------------------
(* Message contents.  A content is described by what the code looks at:    *)
(*   syn      "text" (json.loads raises JSONDecodeError), "json_scalar",   *)
(*            "json_object" (a dict), "none" (JSON null / Python None)     *)
(*   blank    content.strip() is empty                                     *)
(*   review   contains a review keyword and "goal"                         *)
(*   markers  0: no field marker; 1: category:, title:, description: and   *)
(*            deadline: once each (one goal record); 2: markers repeated   *)
(*   type     value of the "type" key of a JSON object, "absent" if none   *)
(*   args     keys of the "args" object of a JSON object                   *)

Content(txt, syn, blank, review, markers, type, args) ==
    [txt |-> txt, syn |-> syn, blank |-> blank, review |-> review,
     markers |-> markers, type |-> type, args |-> args]

Text(txt) == Content(txt, "text", FALSE, FALSE, 0, "absent", {})

CHello      == Text("hello")
CReview     == Content("show my goals", "text", FALSE, TRUE, 0, "absent", {})
CEmpty      == Content("", "text", TRUE, FALSE, 0, "absent", {})
CSpaces     == Content("  ", "text", TRUE, FALSE, 0, "absent", {})
CNumber     == Content("42", "json_scalar", FALSE, FALSE, 0, "absent", {})
CObject     == Content("{x:1}", "json_object", FALSE, FALSE, 0, "absent", {})
CNone       == Content("None", "none", FALSE, FALSE, 0, "absent", {})

(* json.dumps({"type": t, "args": {k: ... for k in args}}) *)
Envelope(type, args) ==
    Content("envelope", "json_object", FALSE, FALSE, 0, type, args)

AllFields   == {"title", "category", "description", "deadline"}
(* a validation that asks for the title alone *)
CoreFields_title_only == {"title"}

CoreFields  == {"title", "category", "description"}

CEnvFoo     == Envelope("foo", {})
CEnvAddFull == Envelope("add_goal", AllFields)
CEnvAddCore == Envelope("add_goal", CoreFields)
CEnvAddPart == Envelope("add_goal", {"category", "description"})

(* texts the backend and the tools produce *)
CReply      == Text("reply")
CWelcome    == Text("Welcome to the Goal Setter AI. How may I help you today?")
CHelp       == Content("I'm here to help you with your goals! ...",
                       "text", FALSE, TRUE, 0, "absent", {})
CNoGoals    == Text("No goals found.")
COneGoal    == Content("Category: Title: Description: Deadline: Progress:",
                       "text", FALSE, FALSE, 1, "absent", {})
CManyGoals  == Content("Category: ... Category: ...",
                       "text", FALSE, FALSE, 2, "absent", {})
CGetError   == Text("Error getting goals: ...")
CAdded      == Text("Added goal: T")
CAddError   == Text("Error adding goal: ...")
CMissing    == Text("Missing required fields: ...")
CNoRequest  == Text("No goal_args data provided")

(* json.dumps({"status": s, "message": m}) : a JSON object without "type" *)
StatusJson(txt) == Content(txt, "json_object", FALSE, FALSE, 0, "absent", {})

CStatMissing == StatusJson("status error: Missing required fields")
CStatUnknown == StatusJson("status error: Unknown goal_args type")
CStatAddErr  == StatusJson("status error: Error processing goal addition")
CStatAdded   == StatusJson("status success: Successfully added your goal")
CStatFailed  == StatusJson("status error: Error adding goal")

----------------------------------------------------------------------------
(* Messages.  form is the Python type: a dict, or a langchain message      *)
(* object.  tool_calls is the list under the "tool_calls" key/attribute,   *)
(* tool_call_id is 0 when the message carries none.                        *)

MkMsg(form, role, content, tool_calls, tool_call_id, is_fallback) ==
    [form |-> form, role |-> role, content |-> content,
     tool_calls |-> tool_calls, tool_call_id |-> tool_call_id,
     is_fallback |-> is_fallback]

UserDict(c)      == MkMsg("dict", "user", c, <<>>, 0, FALSE)
AssistantDict(c) == MkMsg("dict", "assistant", c, <<>>, 0, FALSE)
FallbackDict     == MkMsg("dict", "assistant", CHelp, <<>>, 0, TRUE)
CallsDict(tcs)   == MkMsg("dict", "assistant", CEmpty, tcs, 0, FALSE)
ToolDict(c, id)  == MkMsg("dict", "tool", c, <<>>, id, FALSE)
HumanMessage(c)  == MkMsg("HumanMessage", "user", c, <<>>, 0, FALSE)
AIMessage(c, tcs) == MkMsg("AIMessage", "assistant", c, tcs, 0, FALSE)
ToolMessage(c, id) == MkMsg("ToolMessage", "tool", c, <<>>, id, FALSE)

(* state["user_id"] of the session, and a user id that is not the session's *)
user_id == "owner"

OtherUser == "mallory"

(* a tool call {"name", "args", "id"}: args holds the keys of the args      *)
(* dict, user_id the value under its "user_id" key ("absent" without one)  *)
ToolCallFrom(name, id, args, uid) ==
    [name |-> name, id |-> id, args |-> args,
     user_id |-> IF "user_id" \in args THEN uid ELSE "absent"]

(* a tool call whose user_id argument, if any, is the session's user *)
ToolCall(name, id, args) == ToolCallFrom(name, id, args, user_id)

Last(s) == s[Len(s)]

(* tools.goal_action_tools and tools.goal_auto_tools, by tool name *)
goal_action_tools == {"add_goal", "get_goals", "generate_routine"}

goal_auto_tools == {"add_goal", "get_goals", "generate_routine",
                    "get_goal_progress", "get_user_goals",
                    "get_routine_for_goal", "list_goal_tables",
                    "describe_goal_table", "execute_goal_query"}

----------------------------------------------------------------------------
(* json.loads(content): "ok" with the parsed value described by the        *)
(* content, "JSONDecodeError" for text, "TypeError" for a non-string.      *)

json_loads(c) ==
    CASE c.syn = "none" -> "TypeError"
      [] c.syn = "text" -> "JSONDecodeError"
      [] OTHER          -> "ok"

IsDictWithType(c) == c.syn = "json_object" /\ c.type # "absent"

(* route_start taking every JSON document for a request envelope *)
route_start_any_json(msgs) ==
    IF msgs = <<>> THEN "goal_ai"
    ELSE LET content == Last(msgs).content IN
         IF content.syn # "none" /\ json_loads(content) = "ok"
         THEN "api"
         ELSE "goal_ai"

(* flow.route_start *)
route_start(msgs) ==
    IF msgs = <<>> THEN "goal_ai"
    ELSE LET content == Last(msgs).content IN
         IF content.syn # "none" /\ json_loads(content) = "ok"
            /\ IsDictWithType(content)
         THEN "api"
         ELSE "goal_ai"

(* hasattr(msg, "tool_call_id") and hasattr(msg, "tool_calls"): attributes *)
(* of the message objects; a dict has keys, not attributes.                *)
hasattr_tool_call_id(msg) == msg.form = "ToolMessage"

hasattr_tool_calls(msg) == msg.form = "AIMessage"

(* route_by_json with its two outcomes exchanged *)
route_by_json_swapped(content) ==
    CASE json_loads(content) = "ok"              -> "goal_ai"
      [] json_loads(content) = "JSONDecodeError" -> "human"
      [] OTHER                                   -> "raise"

(* the tail of maybe_route_goal_tools: json.loads(content) decides *)
route_by_json(content) ==
    CASE json_loads(content) = "ok"              -> "human"
      [] json_loads(content) = "JSONDecodeError" -> "goal_ai"
      [] OTHER                                   -> "raise"

(* route_dict without the check of the assistant role *)
route_dict_no_role_check(msg) ==
    IF msg.is_fallback THEN "__end__"
    ELSE IF msg.tool_call_id # 0 THEN "__end__"
    ELSE route_by_json(msg.content)

(* route_dict without the check of the tool_call_id key *)
route_dict_no_id_check(msg) ==
    IF msg.is_fallback THEN "__end__"
    ELSE IF msg.role = "assistant" THEN "__end__"
    ELSE route_by_json(msg.content)

(* maybe_route_goal_tools, the branch isinstance(msg, dict) *)
route_dict(msg) ==
    IF msg.is_fallback THEN "__end__"
    ELSE IF msg.role = "assistant" THEN "__end__"
    ELSE IF msg.tool_call_id # 0 THEN "__end__"
    ELSE route_by_json(msg.content)

(* route_object without the check isinstance(msg, AIMessage) *)
route_object_no_ai_check(msg) == route_by_json(msg.content)

(* maybe_route_goal_tools, the branch of the message objects *)
route_object(msg) ==
    IF msg.form = "AIMessage" THEN "__end__"
    ELSE route_by_json(msg.content)

(* a router that keeps what it answered and ends the turn when asked again *)
maybe_route_goal_tools_once(msgs, fin) ==
    IF msgs = <<>> THEN "raise"
    ELSE IF fin \/ route # "none" THEN "__end__"
    ELSE "goal_ai"

(* nodes.maybe_route_goal_tools *)
maybe_route_goal_tools(msgs, fin) ==
    IF msgs = <<>> THEN "raise"
    ELSE LET msg == Last(msgs) IN
      IF fin THEN "__end__"
      ELSE IF msg.form = "ToolMessage" \/ hasattr_tool_call_id(msg)
        THEN "__end__"
      ELSE IF hasattr_tool_calls(msg) /\ Len(msg.tool_calls) > 0
        THEN IF \E i \in 1..Len(msg.tool_calls) :
                    msg.tool_calls[i].name \in goal_action_tools
             THEN "goal_actions"
             ELSE "goal_tools"
      ELSE IF msg.form = "dict" THEN route_dict(msg)
      ELSE route_object(msg)

(* nodes.maybe_exit_human_node *)
maybe_exit_human_node(fin) == IF fin THEN "__end__" ELSE "goal_ai"

(* where the run stands after a router returned r *)
NodeOf(r) ==
    CASE r = "__end__" -> "END"
      [] r = "raise"   -> "ERROR"
      [] OTHER         -> r

----------------------------------------------------------------------------
(* Outcomes of the external collaborators *)

(* llm_with_tools.invoke: an AIMessage with text, with empty content, with *)
(* blanks only, with empty content and a tool call, or an exception        *)
LLMException == MkMsg("Exception", "none", CEmpty, <<>>, 0, FALSE)

LLMOutcomes ==
    { AIMessage(CReply, <<>>),
      AIMessage(CEmpty, <<>>),
      AIMessage(CSpaces, <<>>),
      AIMessage(CEmpty, <<ToolCall("get_user_goals", 1, {"user_id"})>>),
      LLMException }

(* the get_goals tool returns one of these texts, the add_goal tool a JSON *)
(* document whose message is one of these texts                            *)
GetGoalsOutcomes == {CNoGoals, COneGoal, CManyGoals, CGetError}

AddGoalOutcomes == {CAdded, CAddError}

(* str(uuid.uuid4()): an id that occurs nowhere in the session *)
RECURSIVE IdsOfCalls(_)
IdsOfCalls(tcs) ==
    IF tcs = <<>> THEN {} ELSE {tcs[1].id} \cup IdsOfCalls(Tail(tcs))

RECURSIVE IdsOf(_)
IdsOf(msgs) ==
    IF msgs = <<>> THEN {}
    ELSE {msgs[1].tool_call_id} \cup IdsOfCalls(msgs[1].tool_calls)
            \cup IdsOf(Tail(msgs))

uuid4(msgs) ==
    CHOOSE n \in 1..(Cardinality(IdsOf(msgs)) + 2) :
        /\ n \notin IdsOf(msgs)
        /\ \A m \in 1..(n - 1) : m \in IdsOf(msgs)

----------------------------------------------------------------------------
(* Results of a node: the state update it returns, or raised = TRUE.  A    *)
(* node that calls a collaborator has one result per outcome of the call.  *)

(* Besides the state update a result records what the node did outside     *)
(* the state: llm_call, the call of the backend; tool_runs, the tools it   *)
(* invoked and for which user; stored, the rows it committed to the goals  *)
(* table.  A raised result keeps them, and keeps the goals and routines    *)
(* the node had reached: goals.append and routines[title] = ... act on the *)
(* lists of the state the node was given.                                  *)

NoCall == [invoked |-> FALSE, messages |-> <<>>, reply |-> LLMException]

(* llm_with_tools.invoke([system_prompt] + msgs) and what came of it *)
LLMCall(msgs, new_output) ==
    [invoked |-> TRUE, messages |-> msgs, reply |-> new_output]

Result(msgs, gs, rs, fin) ==
    [messages |-> msgs, goals |-> gs, routines |-> rs, finished |-> fin,
     raised |-> FALSE, llm_call |-> NoCall, tool_runs |-> <<>>,
     stored |-> <<>>]

RaisedIn(gs, rs) ==
    [messages |-> <<>>, goals |-> gs, routines |-> rs,
     finished |-> FALSE, raised |-> TRUE, llm_call |-> NoCall,
     tool_runs |-> <<>>, stored |-> <<>>]

(* outbound_msgs.append(ToolMessage(...)) in front of the later ones *)
WithToolMessage(rest, response, tc) ==
    IF rest.raised THEN rest
    ELSE [rest EXCEPT !.messages =
             <<ToolMessage(response, tc.id)>> \o rest.messages]

(* tool.invoke({... "user_id": uid}) in front of the later invocations, and *)
(* the row it committed, if any                                             *)
WithToolRun(rest, name, uid, rows) ==
    [rest EXCEPT !.tool_runs = <<[name |-> name, user_id |-> uid]>> \o @,
                 !.stored = rows \o @]

(* goal_action_node without the assignment of state["user_id"] *)
inject_nothing(tc) == tc

(* if "user_id" in tool_call["args"]: tool_call["args"]["user_id"] = ...   *)
inject_user_id(tc) ==
    IF "user_id" \in tc.args THEN [tc EXCEPT !.user_id = user_id] ELSE tc

(* add_goal_tool.invoke: the row committed with the response *)
StoredBy(response, uid) ==
    IF response = CAdded THEN <<(<<uid, "T">>)>> ELSE <<>>

(* nodes.goal_action_node, applied to the tool calls of the last message:  *)
(* the set of its results.  The sub-states the callers build carry no      *)
(* "finished" key, so the returned finished is                             *)
(* state.get("finished", False) = fin.                                     *)
RECURSIVE goal_action_node(_, _, _, _)
goal_action_node(tcs, gs, rs, fin) ==
    IF tcs = <<>> THEN {Result(<<>>, gs, rs, fin)}
    ELSE
      LET tc == inject_user_id(tcs[1]) IN
      IF tc.name = "add_goal" THEN
          IF ~ (CoreFields \subseteq tc.args)
          THEN {RaisedIn(gs, rs)}                              \* KeyError
          ELSE { WithToolRun(WithToolMessage(rest, response, tc),
                             "add_goal", user_id,
                             StoredBy(response, user_id)) :
                   rest \in goal_action_node(Tail(tcs), Append(gs, "T"),
                                             rs \cup {"T"}, fin),
                   response \in AddGoalOutcomes }
      ELSE IF tc.name = "get_goals" THEN
          IF "user_id" \notin tc.args
          THEN {RaisedIn(gs, rs)}                              \* KeyError
          ELSE { WithToolRun(WithToolMessage(rest, response, tc),
                             "get_goals", tc.user_id, <<>>) :
                   rest \in goal_action_node(Tail(tcs), gs, rs, fin),
                   response \in GetGoalsOutcomes }
      ELSE {RaisedIn(gs, rs)}                       \* NotImplementedError

(* the conversion loop of goal_ai_with_tools: dicts become HumanMessage or *)
(* AIMessage by role, ToolMessage objects and other roles are dropped      *)
RECURSIVE ConvertedMessages(_)
ConvertedMessages(msgs) ==
    IF msgs = <<>> THEN <<>>
    ELSE LET m == msgs[1]
             rest == ConvertedMessages(Tail(msgs))
         IN IF m.form = "dict" /\ m.role = "user"
              THEN <<HumanMessage(m.content)>> \o rest
            ELSE IF m.form = "dict" /\ m.role = "assistant"
              THEN <<AIMessage(m.content, <<>>)>> \o rest
            ELSE IF m.form \in {"HumanMessage", "AIMessage"}
              THEN <<m>> \o rest
            ELSE rest

(* HumanMessage(content=None) / AIMessage(content=None) fail validation *)
ConversionRaises(msgs) ==
    \E i \in 1..Len(msgs) :
        /\ msgs[i].form = "dict"
        /\ msgs[i].role \in {"user", "assistant"}
        /\ msgs[i].content.syn = "none"

SelectHuman(msgs) == SelectSeq(msgs, LAMBDA m : m.form = "HumanMessage")

(* is_tool_response of goal_ai_with_tools, criterion 4: all four field     *)
(* markers present, or one of category:/title:/progress: repeated          *)
is_tool_response(content) == content.markers >= 1

(* NormalizedOutput testing the content for the empty string only *)
NormalizedOutput_no_strip(llm) ==
    IF llm = LLMException THEN FallbackDict
    ELSE IF llm.content.txt = "" THEN FallbackDict
    ELSE AssistantDict(llm.content)

(* new_output after the AIMessage-to-dict conversion and the empty check *)
NormalizedOutput(llm) ==
    IF llm = LLMException THEN FallbackDict
    ELSE IF llm.content.blank THEN FallbackDict
    ELSE AssistantDict(llm.content)

(* what a caller of goal_action_node returns from its result: the goals,   *)
(* the routines and the effects of the result, with its own messages       *)
Returning(result, msgs, fin) ==
    [result EXCEPT !.messages = msgs, !.finished = fin]

(* a self-triggered get_goals that returns its tool message alone *)
TriggeredGetGoals_alone(msgs, gs, rs, fin) ==
    LET tool_call == ToolCall("get_goals", uuid4(msgs), {"user_id"})
    IN { IF result.raised THEN result
         ELSE Returning(result, <<result.messages[1]>>, fin) :
           result \in goal_action_node(<<tool_call>>, gs, rs, FALSE) }

(* the self-triggered get_goals of goal_ai_with_tools *)
TriggeredGetGoals(msgs, gs, rs, fin) ==
    LET tool_call == ToolCall("get_goals", uuid4(msgs), {"user_id"})
    IN { IF result.raised THEN result
         ELSE Returning(result, msgs \o <<result.messages[1]>>, fin) :
           result \in goal_action_node(<<tool_call>>, gs, rs, FALSE) }

(* the part of goal_ai_with_tools after the add_goal special case *)
goal_ai_general(msgs, gs, rs, fin) ==
    IF ConversionRaises(msgs) THEN {RaisedIn(gs, rs)}
    ELSE
      LET user_messages == SelectHuman(ConvertedMessages(msgs))
          trigger == /\ user_messages # <<>>
                     /\ ~ is_tool_response(Last(user_messages).content)
                     /\ Last(user_messages).content.review
      IN IF trigger
         THEN TriggeredGetGoals(msgs, gs, rs, fin)
         ELSE { [Result(msgs \o <<NormalizedOutput(llm)>>, gs, rs, fin)
                   EXCEPT !.llm_call =
                              LLMCall(ConvertedMessages(msgs), llm)] :
                  llm \in LLMOutcomes }

(* the directly handled add_goal request of goal_ai_with_tools *)
DirectAddGoal(msgs, gs, rs, fin) ==
    { IF result.raised THEN result
      ELSE IF json_loads(result.messages[1].content) = "ok"
        THEN Returning(result,
                       <<AssistantDict(
                           IF result.messages[1].content = CStatAdded
                           THEN CAdded ELSE CAddError)>>,
                       fin)
      ELSE Returning(result, <<AssistantDict(result.messages[1].content)>>,
                     fin) :
        result \in UNION { goal_action_node(<<tool_call>>, gs, rs, FALSE) :
                             tool_call \in
                               { ToolCallFrom("add_goal", uuid4(msgs),
                                              Last(msgs).content.args, uid) :
                                   uid \in {user_id, OtherUser} } } }

(* nodes.goal_ai_with_tools: the set of its results *)
goal_ai_with_tools(msgs, gs, rs, fin) ==
    IF msgs = <<>> THEN {Result(<<AssistantDict(CWelcome)>>, gs, rs, fin)}
    ELSE
      LET last_msg == Last(msgs) IN
      IF last_msg.form = "HumanMessage" /\ json_loads(last_msg.content) = "ok"
      THEN
        IF last_msg.content.syn # "json_object"
          THEN {RaisedIn(gs, rs)}                        \* AttributeError
        ELSE IF last_msg.content.type = "add_goal" THEN
          IF AllFields \subseteq last_msg.content.args
          THEN DirectAddGoal(msgs, gs, rs, fin)
          ELSE {Result(<<AssistantDict(CMissing)>>, gs, rs, fin)}
        ELSE goal_ai_general(msgs, gs, rs, fin)
      ELSE goal_ai_general(msgs, gs, rs, fin)

(* the add_goal request of api_node *)
ApiAddGoal(msgs, gs, rs, args) ==
    LET tool_call == ToolCall("add_goal", uuid4(msgs),
                        args \cup {"user_id", "milestones", "email_updates"})
    IN { IF result.raised THEN result
         ELSE IF json_loads(result.messages[1].content) = "ok"
           THEN Returning(result,
                          <<AssistantDict(
                              IF result.messages[1].content = CStatAdded
                              THEN CStatAdded ELSE CStatFailed)>>,
                          result.finished)
         ELSE Returning(result, <<AssistantDict(CStatAddErr)>>,
                        result.finished) :
           result \in goal_action_node(<<tool_call>>, gs, rs, FALSE) }

(* nodes.api_node: the set of its results *)
api_node(msgs, gs, rs, fin) ==
    IF msgs = <<>> THEN {Result(<<AssistantDict(CNoRequest)>>, gs, rs, fin)}
    ELSE
      LET request == Last(msgs)
          request_data == request.content
      IN
      IF json_loads(request_data) = "JSONDecodeError" THEN
          IF request.form = "dict"
          THEN {Result(<<AssistantDict(Text("Invalid JSON request"))>>,
                       gs, rs, fin)}
          ELSE {RaisedIn(gs, rs)}
      ELSE IF request_data.syn # "json_object" THEN {RaisedIn(gs, rs)}
      ELSE IF request_data.type = "add_goal" THEN
          IF ~ (CoreFields \subseteq request_data.args)
          THEN {Result(<<AssistantDict(CStatMissing)>>, gs, rs, fin)}
          ELSE ApiAddGoal(msgs, gs, rs, request_data.args)
      ELSE {Result(<<AssistantDict(CStatUnknown)>>, gs, rs, fin)}

(* the tool calls goal_action_node finds in the last message: the          *)
(* "tool_calls" key of a dict, else the tool_calls of the JSON content of  *)
(* a dict (no content of the model has them), else the attribute of an     *)
(* AIMessage                                                               *)
ToolCallsOf(tool_msg) == tool_msg.tool_calls

(* json.loads(tool_msg["content"]) of a dict without tool calls raises     *)
(* TypeError for a None content                                            *)
ToolCallsRaise(tool_msg) ==
    /\ tool_msg.form = "dict"
    /\ tool_msg.tool_calls = <<>>
    /\ json_loads(tool_msg.content) = "TypeError"

(* goal_action_node called on a GoalState *)
goal_action_node_on(msgs, gs, rs, fin) ==
    IF msgs = <<>> THEN {RaisedIn(gs, rs)}                    \* IndexError
    ELSE IF ToolCallsRaise(Last(msgs)) THEN {RaisedIn(gs, rs)}
    ELSE goal_action_node(ToolCallsOf(Last(msgs)), gs, rs, fin)

(* texts of the userSpeech events, and str.lower on them *)
Speech == {"q", "quit", "exit", "bye", "BYE", "Quit", "hello", "bye bye"}

lower(text) ==
    CASE text = "BYE"  -> "bye"
      [] text = "Quit" -> "quit"
      [] OTHER         -> text

exit_keywords == {"q", "quit", "exit", "bye"}

(* human_node comparing the text as received *)
human_node_case_sensitive(msgs, gs, rs, fin, ws) ==
    IF ws = "none" \/ msgs = <<>> THEN {RaisedIn(gs, rs)}
    ELSE { Result(<<HumanMessage(Text(text))>>, gs, rs,
                  IF text \in exit_keywords THEN TRUE ELSE fin) :
             text \in Speech }
         \cup {RaisedIn(gs, rs)}

(* nodes.human_node: one result per text of the first userSpeech event,    *)
(* and the exception of a socket that closes while the node waits          *)
human_node(msgs, gs, rs, fin, ws) ==
    IF ws = "none" THEN {RaisedIn(gs, rs)}                  \* RuntimeError
    ELSE IF msgs = <<>> THEN {RaisedIn(gs, rs)}             \* IndexError
    ELSE { Result(<<HumanMessage(Text(text))>>, gs, rs,
                  IF lower(text) \in exit_keywords THEN TRUE ELSE fin) :
             text \in Speech }
         \cup {RaisedIn(gs, rs)}

----------------------------------------------------------------------------
(* websocket_handler *)

(* trim_conversation_history removing every leading assistant message *)
RECURSIVE DropLeadingAssistants(_)
DropLeadingAssistants(history) ==
    IF history # <<>> /\ history[1].role = "assistant"
    THEN DropLeadingAssistants(Tail(history))
    ELSE history

trim_dropping_all_leading(history) ==
    IF Len(history) <= max_messages THEN history
    ELSE DropLeadingAssistants(SubSeq(history,
                                      Len(history) - max_messages + 1,
                                      Len(history)))

(* websocket_handler.trim_conversation_history *)
trim_conversation_history(history) ==
    IF Len(history) <= max_messages THEN history
    ELSE LET trimmed == SubSeq(history, Len(history) - max_messages + 1,
                               Len(history))
         IN IF trimmed # <<>> /\ trimmed[1].role = "assistant"
            THEN Tail(trimmed)
            ELSE trimmed

(* the loop "Add assistant responses to conversation history" of           *)
(* handle_connection: the assistant messages of new_messages, in order     *)
RECURSIVE AssistantResponses(_)
AssistantResponses(new_messages) ==
    IF new_messages = <<>> THEN <<>>
    ELSE LET msg == new_messages[1]
             rest == AssistantResponses(Tail(new_messages))
         IN IF msg.form = "dict"
            THEN IF msg.role = "assistant" THEN <<msg>> \o rest ELSE rest
            ELSE IF msg.content.markers >= 2 THEN rest
            ELSE <<AssistantDict(msg.content)>> \o rest

(* updated_conversation_history of handle_connection *)
updated_conversation_history(conversation_history, new_messages) ==
    conversation_history \o AssistantResponses(new_messages)

----------------------------------------------------------------------------
(* lambda_ws *)

(* reply(event, {"type": type, "data": {"status": status, ...}}); user_id  *)
(* is the user the event was carried out for, "none" when it was not       *)
Reply(type, status, uid) == [type |-> type, status |-> status, user_id |-> uid]

NoReply == Reply("none", "none", "none")

(* verify_google_token(token, audience): the "sub" of the id token, "none" *)
(* when verification fails                                                 *)
verify_google_token(token) ==
    CASE token = "token_owner"   -> user_id
      [] token = "token_mallory" -> OtherUser
      [] OTHER                   -> "none"

(* on_message.resolve_user: args.get("user") or                            *)
(* get_user_by_connection(connectionId)                                    *)
resolve_user(args_user, conn_user) ==
    IF args_user # "absent" THEN args_user ELSE conn_user

----------------------------------------------------------------------------
(* db_conn: the one connection of the process, and tools.add_goal and      *)
(* tools.get_goals on it.  A statement sent over the connection acts in    *)
(* the connection's open transaction, whichever session sent it; a         *)
(* statement, a commit or a rollback either succeeds or raises.            *)

Sessions == {user_id, OtherUser}

(* a row of the goals table, and a row of the routines table *)
GoalRow(goal_id, uid) == [goal_id |-> goal_id, user_id |-> uid]

RoutineRow(goal_id, day_number) == <<goal_id, day_number>>

(* the tables as committed, the rows the open transaction has inserted,    *)
(* and the AUTO_INCREMENT counter of goals                                 *)
NoRows ==
    [goals |-> {}, routines |-> {},
     txn_goals |-> {}, txn_routines |-> {}, lastrowid |-> 0]

(* a session's execution of a tool: where it stands, the goal_id it got,   *)
(* the routine row it is about to insert, the status of the JSON it        *)
(* returned last, and what its last get_goals read                         *)
NoDbCall ==
    [pc |-> "idle", goal_id |-> 0, day_number |-> 0, status |-> "none",
     read |-> {}]

----------------------------------------------------------------------------
(* The args of add_goal: emailUpdates / email_updates and deadline, from   *)
(* the event to the goal of the session and the row of the goals table.    *)
(* A value is a record of its JSON kind and of the strings it holds.       *)

Value(kind, items) == [kind |-> kind, items |-> items]

Absent == Value("absent", {})
Str(v) == Value("str", {v})
List(vs) == Value("list", vs)
Other == Value("other", {})

valid_email_updates == {"daily", "weekly", "monthly", "never"}

(* if "daily" in email_updates: ... elif "weekly" ... elif "monthly" ...   *)
(* else "never"                                                            *)
collapse_list(items) ==
    IF "daily" \in items THEN "daily"
    ELSE IF "weekly" \in items THEN "weekly"
    ELSE IF "monthly" \in items THEN "monthly"
    ELSE "never"

(* args.pop("emailUpdates", "never") *)
pop_emailUpdates(args_value) ==
    IF args_value = Absent THEN Str("never") ELSE args_value

(* websocket_handler: what args["email_updates"] is set to *)
handler_email_updates(args_value) ==
    LET email_updates == pop_emailUpdates(args_value)
        single == IF email_updates.kind = "list"
                  THEN Str(collapse_list(email_updates.items))
                  ELSE IF email_updates.kind # "str" THEN Str("never")
                  ELSE email_updates
    IN IF single.items \subseteq valid_email_updates
       THEN single ELSE Str("never")

(* api_node: what args["email_updates"] is set to, whatever it was *)
api_email_updates(args_value, snake_value) ==
    LET email_updates == pop_emailUpdates(args_value) IN
    IF email_updates.kind = "list"
    THEN Str(collapse_list(email_updates.items))
    ELSE email_updates

(* goal_action_node: tool_call["args"].get("email_updates", {}) *)
dispatch_email_updates(snake_value) ==
    IF snake_value = Absent THEN Other ELSE snake_value

(* tools.add_goal: email_updates or "never", then the check against       *)
(* valid_email_updates                                                     *)
tool_email_updates(value) ==
    IF value.kind = "str" /\ value.items \subseteq valid_email_updates
    THEN value ELSE Str("never")

(* a deadline: absent, empty (the empty string, or null), a text that      *)
(* strptime rejects, or the date of a day; datetime.now() counts half      *)
(* days, day d begins at 2*d                                               *)
Deadline(kind, day) == [kind |-> kind, day |-> day]

Deadlines ==
    { Deadline("absent", 0), Deadline("empty", 0), Deadline("text", 0) }
    \cup { Deadline("date", day) : day \in 0..MaxDate }

Today == 2

Nows == {2 * Today, 2 * Today + 1}

(* (deadline_date - datetime.now()).days without the max *)
days_without_max(deadline, now) ==
    IF deadline.kind \in {"absent", "empty", "text"} THEN 30
    ELSE (2 * deadline.day - now) \div 2

(* if deadline: days = max(1, (strptime(deadline) - now()).days)           *)
(* else: days = 30; except ValueError: days = 30                           *)
days(deadline, now) ==
    IF deadline.kind \in {"absent", "empty"} THEN 30
    ELSE IF deadline.kind = "text" THEN 30
    ELSE LET delta == (2 * deadline.day - now) \div 2
         IN IF delta > 1 THEN delta ELSE 1

(* user_states[user_id] as handle_connection creates it *)
NoSession ==
    [goals |-> <<>>, routines |-> {}, finished |-> FALSE,
     conversation_history |-> <<>>]

(* a handler between two events: the state it passes to graph.ainvoke is   *)
(* not built yet                                                           *)
NoEvent ==
    [pc |-> "idle", type |-> "none", messages |-> <<>>, goals |-> <<>>,
     routines |-> {}, finished |-> FALSE]

(* a socket on which nothing was sent and nothing was received *)
EmptySocket == [pending |-> <<>>, received |-> <<>>, closed |-> FALSE]

(* the connections of the clients, by the name of their WebSocket object *)
WebSockets == {"ws", "ws2", "ws3"}

NoRequest ==
    [stage |-> "none", entry |-> "none", given |-> Absent,
     emailUpdates |-> Absent, email_updates |-> Absent,
     deadline |-> Deadline("absent", 0), now |-> 0,
     goal_email |-> Absent, goal_days |-> 0,
     row_email |-> Absent, row_days |-> 0,
     milestones |-> 0, row_milestones |-> 0, user_goals |-> "none"]

InitWorld ==
    /\ db_conn = NoRows
    /\ db_calls = [s \in Sessions |-> NoDbCall]
    /\ goal_args = NoRequest
    /\ sockets = [ws \in WebSockets |-> "new"]
    /\ all_states = [u \in Sessions |-> NoSession]
    /\ handlers = [u \in Sessions |-> NoEvent]
    /\ inbox = EmptySocket

----------------------------------------------------------------------------
(* One run of the graph *)

(* START -> route_start *)
RouteStart ==
    /\ node = "START"
    /\ node' = route_start(messages)
    /\ UNCHANGED <<messages, finished, goals, routines, steps, route,
                   user_states, pending, before, turns, rare, effects>>

(* what a node execution leaves behind: the update is merged into the      *)
(* state (every channel is last-value), an exception aborts the run; a     *)
(* route computed for the state before the node is no longer recorded      *)
Merge(result, next) ==
    /\ steps' = steps + 1
    /\ IF result.raised
       THEN /\ node' = "ERROR"
            /\ UNCHANGED <<messages, finished>>
       ELSE /\ messages' = result.messages
            /\ finished' = result.finished
            /\ node' = next
    /\ goals' = result.goals
    /\ routines' = result.routines
    /\ llm_call' = result.llm_call
    /\ tool_runs' = result.tool_runs
    /\ persisted' = persisted \o result.stored
    /\ route' = "none"
    /\ UNCHANGED <<user_states, pending, before, turns, rare, active_users,
                   lambda_state, world>>

(* node goal_ai, followed by its conditional edge maybe_route_goal_tools *)
GoalAI ==
    /\ node = "goal_ai"
    /\ steps < MaxSteps
    /\ \E result \in goal_ai_with_tools(messages, goals, routines, finished) :
          Merge(result,
                NodeOf(maybe_route_goal_tools(result.messages,
                                              result.finished)))

(* node api, followed by its edge to END *)
Api ==
    /\ node = "api"
    /\ steps < MaxSteps
    /\ \E result \in api_node(messages, goals, routines, finished) :
          Merge(result, "END")

(* the classifier applied to the session as it stands, for the first time  *)
(* or again                                                                *)
Classify ==
    /\ pending = "none"
    /\ route' = maybe_route_goal_tools(messages, finished)
    /\ UNCHANGED <<messages, finished, goals, routines, node, steps,
                   user_states, pending, before, turns, rare, effects>>

----------------------------------------------------------------------------
(* Spec: the graph on an arbitrary GoalState *)

DrawnCall(name) == ToolCall(name, 1, {"user_id"})

DrawnMessages ==
    { UserDict(c) : c \in {CHello, CReview, CEmpty, CNumber, CObject, CNone,
                           CManyGoals, CEnvFoo, CEnvAddFull, CEnvAddCore,
                           CEnvAddPart} }
    \cup { AssistantDict(CReply), FallbackDict,
           CallsDict(<<DrawnCall("add_goal")>>),
           CallsDict(<<DrawnCall("get_user_goals")>>),
           ToolDict(COneGoal, 1) }
    \cup { HumanMessage(c) : c \in {CHello, CReview, CNumber, CEnvFoo,
                                    CEnvAddFull, CEnvAddCore} }
    \cup { AIMessage(CReply, <<>>),
           AIMessage(CEmpty, <<DrawnCall("add_goal")>>),
           AIMessage(CEmpty, <<DrawnCall("get_user_goals")>>),
           AIMessage(CEmpty, <<DrawnCall("get_user_goals"),
                               DrawnCall("get_goals")>>),
           ToolMessage(COneGoal, 1) }

DrawnHistories ==
    UNION { [1..n -> DrawnMessages] : n \in 0..MaxMsgs }

Init ==
    /\ messages \in DrawnHistories
    /\ finished \in BOOLEAN
    /\ goals = <<>>
    /\ routines = {}
    /\ node = "START"
    /\ steps = 0
    /\ route = "none"
    /\ user_states = NoSession
    /\ pending = "none"
    /\ before = 0
    /\ turns = 0
    /\ rare = 0
    /\ llm_call = NoCall
    /\ tool_runs = <<>>
    /\ persisted = <<>>
    /\ active_users = "none"
    /\ ws_connections = "none"
    /\ reply = NoReply
    /\ InitWorld

Next == RouteStart \/ GoalAI \/ Api \/ Classify

Spec == Init /\ [][Next]_vars

(* the executor runs a scheduled node; nothing else is scheduled *)
SpecFair == Spec /\ WF_vars(RouteStart \/ GoalAI \/ Api)

----------------------------------------------------------------------------
(* SpecWS: handle_connection after a successful authentication *)

Idle == pending = "none"

(* graph.ainvoke({... "messages": msgs, "goals": current_state["goals"]}) *)
Invoke(msgs) ==
    /\ messages' = msgs
    /\ goals' = user_states.goals
    /\ routines' = user_states.routines
    /\ finished' = user_states.finished
    /\ node' = "START"
    /\ steps' = 0
    /\ before' = Len(user_states.conversation_history)
    /\ llm_call' = NoCall
    /\ tool_runs' = <<>>
    /\ UNCHANGED <<route, turns, persisted, active_users, lambda_state,
                   world>>

(* conversation_history.append(...) acts on the stored list itself *)
AppendAndInvoke(msg) ==
    LET conversation_history ==
            Append(user_states.conversation_history, msg)
    IN /\ user_states' = [user_states EXCEPT
                            !.conversation_history = conversation_history]
       /\ Invoke(conversation_history)

ChatMessages == {CHello, CReview, CNone}

IsRare(c) == c # CHello

(* message_type == "chat" up to graph.ainvoke *)
RecvChat ==
    /\ Idle
    /\ turns < MaxTurns
    /\ \E user_message \in ChatMessages :
          /\ IsRare(user_message) => rare < MaxRare
          /\ rare' = IF IsRare(user_message) THEN rare + 1 ELSE rare
          /\ AppendAndInvoke(UserDict(user_message))
    /\ pending' = "chat"

(* any other message type up to graph.ainvoke: the event itself is the     *)
(* user message, json.dumps({"type": message_type, "args": args})          *)
RecvOther ==
    /\ Idle
    /\ turns < MaxTurns
    /\ AppendAndInvoke(UserDict(Envelope("foo", {})))
    /\ pending' = "other"
    /\ UNCHANGED rare

(* message_type == "add_goal" up to graph.ainvoke *)
RecvAddGoal ==
    /\ Idle
    /\ turns < MaxTurns
    /\ rare < MaxRare
    /\ Len(user_states.goals) < MaxGoals
    /\ \E args \in {AllFields, CoreFields, {"category", "description"}} :
          Invoke(<<UserDict(Envelope("add_goal",
                     args \cup {"user_id", "milestones", "email_updates"}))>>)
    /\ pending' = "add_goal"
    /\ rare' = rare + 1
    /\ UNCHANGED user_states

(* message_type == "clear_history" *)
ClearHistory ==
    /\ Idle
    /\ turns < MaxTurns
    /\ rare < MaxRare
    /\ user_states' = [user_states EXCEPT !.conversation_history = <<>>]
    /\ turns' = turns + 1
    /\ rare' = rare + 1
    /\ node' = "IDLE"
    /\ UNCHANGED <<messages, finished, goals, routines, steps, route,
                   pending, before, effects>>

(* the chat branch storing the default of result.get("goals", []) *)
FinishTurn_default_goals ==
    /\ pending \in {"chat", "other"}
    /\ node = "END"
    /\ user_states' =
          [goals |-> <<>>, routines |-> routines, finished |-> finished,
           conversation_history |->
               trim_conversation_history(
                   updated_conversation_history(
                       user_states.conversation_history, messages))]
    /\ pending' = "none"
    /\ node' = "DONE"
    /\ turns' = turns + 1
    /\ UNCHANGED <<messages, finished, goals, routines, steps, route,
                   before, rare, effects>>

(* the rest of the chat branch and of the branch of the other types *)
FinishTurn ==
    /\ pending \in {"chat", "other"}
    /\ node = "END"
    /\ user_states' =
          [goals |-> goals, routines |-> routines, finished |-> finished,
           conversation_history |->
               trim_conversation_history(
                   updated_conversation_history(
                       user_states.conversation_history, messages))]
    /\ pending' = "none"
    /\ node' = "DONE"
    /\ turns' = turns + 1
    /\ UNCHANGED <<messages, finished, goals, routines, steps, route,
                   before, rare, effects>>

(* the rest of the add_goal branch *)
FinishAddGoal ==
    /\ pending = "add_goal"
    /\ node = "END"
    /\ user_states' =
          [goals |-> goals, routines |-> routines, finished |-> finished,
           conversation_history |-> user_states.conversation_history]
    /\ pending' = "none"
    /\ node' = "DONE"
    /\ turns' = turns + 1
    /\ UNCHANGED <<messages, finished, goals, routines, steps, route,
                   before, rare, effects>>

(* except Exception around the processing of one message *)
AbortTurn ==
    /\ pending # "none"
    /\ node = "ERROR"
    /\ pending' = "none"
    /\ node' = "ABORTED"
    /\ turns' = turns + 1
    /\ UNCHANGED <<messages, finished, goals, routines, steps, route,
                   user_states, before, rare, effects>>

InitWS ==
    /\ messages = <<>>
    /\ finished = FALSE
    /\ goals = <<>>
    /\ routines = {}
    /\ node = "IDLE"
    /\ steps = 0
    /\ route = "none"
    /\ user_states = NoSession
    /\ pending = "none"
    /\ before = 0
    /\ turns = 0
    /\ rare = 0
    /\ llm_call = NoCall
    /\ tool_runs = <<>>
    /\ persisted = <<>>
    /\ active_users = "ws"
    /\ ws_connections = "none"
    /\ reply = NoReply
    /\ InitWorld

NextWS ==
    \/ RecvChat \/ RecvOther \/ RecvAddGoal \/ ClearHistory
    \/ RouteStart \/ GoalAI \/ Api
    \/ FinishTurn \/ FinishAddGoal \/ AbortTurn

SpecWS == InitWS /\ [][NextWS]_vars

----------------------------------------------------------------------------
(* SpecNodes: one call of a node function on an arbitrary GoalState.       *)
(* user_states keeps the state the node was called on; pending names the   *)
(* node that was called.                                                   *)

(* tool calls a last message may carry into goal_action_node *)
FullArgs == AllFields \cup {"user_id"}

DispatchCalls ==
    { <<ToolCallFrom("add_goal", 1, FullArgs, OtherUser)>>,
      <<ToolCallFrom("add_goal", 1, CoreFields, user_id)>>,
      <<ToolCallFrom("add_goal", 1, {"title", "description", "user_id"},
                     user_id)>>,
      <<ToolCallFrom("get_goals", 1, {"user_id"}, OtherUser)>>,
      <<ToolCallFrom("get_goals", 1, {}, user_id)>>,
      <<ToolCallFrom("log_progress", 1, {"user_id"}, user_id)>>,
      <<ToolCallFrom("get_goals", 1, {"user_id"}, OtherUser),
        ToolCallFrom("add_goal", 2, FullArgs, user_id)>>,
      <<ToolCallFrom("add_goal", 1, FullArgs, user_id),
        ToolCallFrom("log_progress", 2, {"user_id"}, user_id)>>,
      <<ToolCallFrom("add_goal", 1, FullArgs, user_id),
        ToolCallFrom("add_goal", 2, {"category"}, user_id)>> }

DispatchMessages ==
    { CallsDict(tcs) : tcs \in DispatchCalls }
    \cup { AIMessage(CEmpty, tcs) : tcs \in DispatchCalls }

(* the last message of the state a node is called on *)
NodeMessages ==
    { UserDict(c) : c \in {CHello, CReview, CNone, CManyGoals,
                           CEnvAddCore, CEnvAddPart} }
    \cup { HumanMessage(c) : c \in {CHello, CNumber, CEnvAddFull,
                                    CEnvAddCore, CEnvAddPart} }
    \cup { AssistantDict(CReply), AIMessage(CReply, <<>>),
           ToolMessage(COneGoal, 1) }
    \cup DispatchMessages

(* the messages before it *)
EarlierMessages ==
    { UserDict(CHello), AssistantDict(CReply), ToolMessage(COneGoal, 1) }

NodeInputs ==
    { <<>> } \cup
    { earlier \o <<m>> :
        earlier \in UNION { [1..n -> EarlierMessages] : n \in 0..(MaxMsgs - 1) },
        m \in NodeMessages }

InitNodes ==
    /\ messages \in NodeInputs
    /\ finished \in BOOLEAN
    /\ goals \in {<<>>, <<"G">>}
    /\ routines = IF goals = <<>> THEN {} ELSE {"G"}
    /\ node = "CALL"
    /\ steps = 0
    /\ route = "none"
    /\ user_states = [goals |-> goals, routines |-> routines,
                      finished |-> finished,
                      conversation_history |-> messages]
    /\ pending = "none"
    /\ before = 0
    /\ turns = 0
    /\ rare = 0
    /\ llm_call = NoCall
    /\ tool_runs = <<>>
    /\ persisted = <<>>
    /\ active_users \in {"none", "ws"}
    /\ ws_connections = "none"
    /\ reply = NoReply
    /\ InitWorld

(* the call returns, or raises *)
Return(result, name) ==
    /\ node = "CALL"
    /\ pending' = name
    /\ steps' = steps + 1
    /\ IF result.raised
       THEN /\ node' = "ERROR"
            /\ UNCHANGED <<messages, finished>>
       ELSE /\ messages' = result.messages
            /\ finished' = result.finished
            /\ node' = name
    /\ goals' = result.goals
    /\ routines' = result.routines
    /\ llm_call' = result.llm_call
    /\ tool_runs' = result.tool_runs
    /\ persisted' = persisted \o result.stored
    /\ UNCHANGED <<route, user_states, before, turns, rare, active_users,
                   lambda_state, world>>

CallGoalAI ==
    \E result \in goal_ai_with_tools(messages, goals, routines, finished) :
        Return(result, "goal_ai")

CallGoalAction ==
    \E result \in goal_action_node_on(messages, goals, routines, finished) :
        Return(result, "goal_action_node")

CallApi ==
    \E result \in api_node(messages, goals, routines, finished) :
        Return(result, "api")

CallHuman ==
    \E result \in human_node(messages, goals, routines, finished,
                             active_users) :
        Return(result, "human")

(* the conditional edge after goal_ai *)
RouteGoalAI ==
    /\ node = "goal_ai"
    /\ route = "none"
    /\ route' = maybe_route_goal_tools(messages, finished)
    /\ UNCHANGED <<messages, finished, goals, routines, node, steps,
                   user_states, pending, before, turns, rare, effects>>

(* the conditional edge after human *)
RouteHuman ==
    /\ node = "human"
    /\ route = "none"
    /\ route' = maybe_exit_human_node(finished)
    /\ UNCHANGED <<messages, finished, goals, routines, node, steps,
                   user_states, pending, before, turns, rare, effects>>

NextNodes ==
    CallGoalAI \/ CallGoalAction \/ CallApi \/ CallHuman
        \/ RouteGoalAI \/ RouteHuman

SpecNodes == InitNodes /\ [][NextNodes]_vars

----------------------------------------------------------------------------
(* SpecDB: tools.add_goal statement by statement, and tools.get_goals, for *)
(* two sessions of one process.  api_node runs goal_action_node and with   *)
(* it add_goal on the event loop without awaiting, so one add_goal runs at *)
(* a time; goal_ai_with_tools is a synchronous node that ainvoke runs in   *)
(* an executor thread, so its get_goals runs beside it.                    *)

db_frame == <<messages, finished, goals, routines, node, steps, route,
              user_states, pending, before, turns, rare, llm_call,
              tool_runs, persisted, active_users, lambda_state, goal_args,
              sockets, all_states, handlers, inbox>>

InAddGoal(s) == db_calls[s].pc # "idle"

(* the call moves on *)
Goto(s, pc) == [db_calls EXCEPT ![s].pc = pc]

(* cursor = get_cursor(): when it raises, cursor is None and the except    *)
(* clause has nothing to roll back                                         *)
AddGoalBegin(s) ==
    /\ \A t \in Sessions : ~ InAddGoal(t)
    /\ db_conn.lastrowid < MaxGoals
    /\ \E ok \in BOOLEAN :
          db_calls' = [db_calls EXCEPT
                         ![s].pc = IF ok THEN "insert_goal" ELSE "idle",
                         ![s].goal_id = 0,
                         ![s].day_number = 0,
                         ![s].status = IF ok THEN "none" ELSE "error"]
    /\ UNCHANGED <<db_conn, db_frame>>

(* INSERT INTO goals ...; goal_id = cursor.lastrowid *)
InsertGoal(s) ==
    /\ db_calls[s].pc = "insert_goal"
    /\ \E ok \in BOOLEAN :
          IF ok
          THEN LET goal_id == db_conn.lastrowid + 1 IN
               /\ db_conn' = [db_conn EXCEPT
                                !.txn_goals = @ \cup {GoalRow(goal_id, s)},
                                !.lastrowid = goal_id]
               /\ db_calls' = [db_calls EXCEPT
                                 ![s].pc = "insert_routine",
                                 ![s].goal_id = goal_id,
                                 ![s].day_number = 1]
          ELSE /\ db_calls' = Goto(s, "except")
               /\ UNCHANGED db_conn
    /\ UNCHANGED db_frame

(* for day_number, task in enumerate(routine, 1): INSERT INTO routines ... *)
InsertRoutine(s) ==
    /\ db_calls[s].pc = "insert_routine"
    /\ \E ok \in BOOLEAN :
          IF ok
          THEN /\ db_conn' = [db_conn EXCEPT
                                !.txn_routines = @ \cup
                                    {RoutineRow(db_calls[s].goal_id,
                                                db_calls[s].day_number)}]
               /\ db_calls' =
                     IF db_calls[s].day_number = MaxRoutine
                     THEN Goto(s, "commit")
                     ELSE [db_calls EXCEPT ![s].day_number = @ + 1]
          ELSE /\ db_calls' = Goto(s, "except")
               /\ UNCHANGED db_conn
    /\ UNCHANGED db_frame

(* commit(): db_conn.commit() commits the transaction of the connection *)
Commit(s) ==
    /\ db_calls[s].pc = "commit"
    /\ \E ok \in BOOLEAN :
          IF ok
          THEN /\ db_conn' = [db_conn EXCEPT
                                !.goals = @ \cup db_conn.txn_goals,
                                !.routines = @ \cup db_conn.txn_routines,
                                !.txn_goals = {},
                                !.txn_routines = {}]
               /\ db_calls' = Goto(s, "verify")
          ELSE /\ db_calls' = Goto(s, "except")
               /\ UNCHANGED db_conn
    /\ UNCHANGED db_frame

(* SELECT * FROM goals WHERE goal_id = ...; if not saved_goal: raise ...;  *)
(* return json.dumps({"status": "success", ...})                           *)
VerifySaved(s) ==
    /\ db_calls[s].pc = "verify"
    /\ \E ok \in BOOLEAN :
          db_calls' =
             IF ok /\ \E row \in db_conn.goals \cup db_conn.txn_goals :
                        row.goal_id = db_calls[s].goal_id
             THEN [db_calls EXCEPT ![s].pc = "idle", ![s].status = "success"]
             ELSE Goto(s, "except")
    /\ UNCHANGED <<db_conn, db_frame>>

(* except Exception: try: cursor._connection.rollback() except Exception:  *)
(* log; return json.dumps({"status": "error", ...})                        *)
Rollback(s) ==
    /\ db_calls[s].pc = "except"
    /\ \E ok \in BOOLEAN :
          db_conn' = IF ok
                     THEN [db_conn EXCEPT !.txn_goals = {},
                                          !.txn_routines = {}]
                     ELSE db_conn
    /\ db_calls' = [db_calls EXCEPT ![s].pc = "idle", ![s].status = "error"]
    /\ UNCHANGED db_frame

(* tools.get_goals(user_id): the goals of the user that the connection     *)
(* sees, each with COUNT(DISTINCT r.routine_id)                            *)
GetGoals(s) ==
    /\ ~ InAddGoal(s)
    /\ LET seen_goals == db_conn.goals \cup db_conn.txn_goals
           seen_routines == db_conn.routines \cup db_conn.txn_routines
           total_routines(row) ==
               Cardinality({r \in seen_routines : r[1] = row.goal_id})
       IN db_calls' = [db_calls EXCEPT ![s].read =
                         { <<row.goal_id, total_routines(row)>> :
                             row \in {g \in seen_goals : g.user_id = s} }]
    /\ db_calls'[s].read # db_calls[s].read
    /\ UNCHANGED <<db_conn, db_frame>>

InitDB ==
    /\ messages = <<>>
    /\ finished = FALSE
    /\ goals = <<>>
    /\ routines = {}
    /\ node = "tools"
    /\ steps = 0
    /\ route = "none"
    /\ user_states = NoSession
    /\ pending = "none"
    /\ before = 0
    /\ turns = 0
    /\ rare = 0
    /\ llm_call = NoCall
    /\ tool_runs = <<>>
    /\ persisted = <<>>
    /\ active_users = "none"
    /\ ws_connections = "none"
    /\ reply = NoReply
    /\ InitWorld

NextDB ==
    \E s \in Sessions :
        \/ AddGoalBegin(s) \/ InsertGoal(s) \/ InsertRoutine(s)
        \/ Commit(s) \/ VerifySaved(s) \/ Rollback(s) \/ GetGoals(s)

SpecDB == InitDB /\ [][NextDB]_vars

----------------------------------------------------------------------------
(* SpecArgs: one add_goal request from its entry (the WebSocket handler,   *)
(* the api node called with the event, tool dispatch called with a tool    *)
(* call) to the goal of the session and the row of the goals table.        *)

EmailValues ==
    { Absent, Other }
    \cup { List(vs) : vs \in SUBSET {"daily", "weekly", "monthly", "hourly"} }
    \cup { Str(v) : v \in valid_email_updates \cup {"hourly"} }

args_frame == <<messages, finished, goals, routines, node, steps, route,
                user_states, pending, before, turns, rare, llm_call,
                tool_runs, persisted, active_users, lambda_state,
                db_conn, db_calls, sockets, all_states, handlers, inbox>>

(* websocket_handler, message_type == "add_goal", up to graph.ainvoke *)
HandlerArgs ==
    /\ goal_args.stage = "event"
    /\ goal_args.entry = "websocket"
    /\ goal_args' = [goal_args EXCEPT
                     !.stage = "flow_message",
                     !.email_updates = handler_email_updates(goal_args.emailUpdates),
                     !.emailUpdates = Absent]
    /\ UNCHANGED args_frame

(* api_node up to the tool call it builds *)
ApiArgs ==
    /\ \/ goal_args.stage = "flow_message"
       \/ goal_args.stage = "event" /\ goal_args.entry = "api"
    /\ goal_args' = [goal_args EXCEPT
                     !.stage = "tool_call",
                     !.email_updates =
                         api_email_updates(goal_args.emailUpdates, goal_args.email_updates),
                     !.emailUpdates = Absent]
    /\ UNCHANGED args_frame

(* goal_action_node up to goals.append(goal) *)
DispatchArgs ==
    /\ \/ goal_args.stage = "tool_call"
       \/ goal_args.stage = "event" /\ goal_args.entry = "dispatch"
    /\ goal_args' = [goal_args EXCEPT
                     !.stage = "goal",
                     !.goal_email = dispatch_email_updates(goal_args.email_updates),
                     !.goal_days = days(goal_args.deadline, goal_args.now)]
    /\ UNCHANGED args_frame

(* tools.add_goal up to the INSERT; its datetime.now() is that of          *)
(* goal_action_node or later                                               *)
ToolArgs ==
    /\ goal_args.stage = "goal"
    /\ \E now \in {goal_args.now, goal_args.now + 1} :
          goal_args' = [goal_args EXCEPT
                          !.stage = "stored",
                          !.now = now,
                          !.row_email =
                              tool_email_updates(goal_args.goal_email),
                          !.row_days = days(goal_args.deadline, now),
                          !.row_milestones = goal_args.milestones]
    /\ UNCHANGED args_frame

(* tools.get_user_goals on the row of the goal: json.loads of the          *)
(* email_updates column raises for a word that is not JSON, and            *)
(* milestone.get raises AttributeError for a milestone that is a string;   *)
(* except Exception returns the error text                                 *)
get_user_goals(row_email, row_milestones) ==
    IF row_email.kind = "str"
          /\ row_email.items \cap {"null", "true", "false", "{}"} = {}
    THEN "Error getting user goals"
    ELSE IF row_milestones > 0 THEN "Error getting user goals"
    ELSE [milestones |-> row_milestones]

(* get_user_goals(user_id) after the goal was stored *)
GetUserGoals ==
    /\ goal_args.stage = "stored"
    /\ goal_args' = [goal_args EXCEPT
                       !.stage = "read",
                       !.user_goals = get_user_goals(goal_args.row_email,
                                                     goal_args.row_milestones)]
    /\ UNCHANGED args_frame

InitArgs ==
    /\ messages = <<>>
    /\ finished = FALSE
    /\ goals = <<>>
    /\ routines = {}
    /\ node = "args"
    /\ steps = 0
    /\ route = "none"
    /\ user_states = NoSession
    /\ pending = "none"
    /\ before = 0
    /\ turns = 0
    /\ rare = 0
    /\ llm_call = NoCall
    /\ tool_runs = <<>>
    /\ persisted = <<>>
    /\ active_users = "none"
    /\ ws_connections = "none"
    /\ reply = NoReply
    /\ db_conn = NoRows
    /\ db_calls = [s \in Sessions |-> NoDbCall]
    /\ sockets = [ws \in WebSockets |-> "new"]
    /\ all_states = [u \in Sessions |-> NoSession]
    /\ handlers = [u \in Sessions |-> NoEvent]
    /\ inbox = EmptySocket
    /\ \E entry \in {"websocket", "api", "dispatch"},
          value \in EmailValues, deadline \in Deadlines, now \in Nows,
          milestones \in {0, 2} :
          goal_args = [NoRequest EXCEPT
                       !.milestones = milestones,
                       !.stage = "event",
                       !.entry = entry,
                       !.given = value,
                       !.emailUpdates =
                           IF entry = "dispatch" THEN Absent ELSE value,
                       !.email_updates =
                           IF entry = "dispatch" THEN value ELSE Absent,
                       !.deadline = deadline,
                       !.now = now]

NextArgs ==
    HandlerArgs \/ ApiArgs \/ DispatchArgs \/ ToolArgs \/ GetUserGoals

SpecArgs == InitArgs /\ [][NextArgs]_vars

----------------------------------------------------------------------------
(* SpecConn: handle_connection for the connections of the clients of one   *)
(* user, from accept to close.  The tasks run on one event loop: what lies *)
(* between two awaits is one step.  active_users is the entry of the user  *)
(* in nodes.active_users, "none" when the dict has no such key; all_states *)
(* is the dict user_states, its domain the keys; handlers holds the local  *)
(* variables of the task of each connection.                               *)

conn_frame == <<messages, finished, goals, routines, node, steps, route,
                user_states, pending, before, llm_call,
                tool_runs, persisted, lambda_state, db_conn, db_calls,
                goal_args, inbox>>

(* graph.ainvoke(state): route_start, then the node it names *)
ainvoke(msgs, gs, rs, fin) ==
    IF route_start(msgs) = "api" THEN api_node(msgs, gs, rs, fin)
    ELSE goal_ai_with_tools(msgs, gs, rs, fin)

(* the local variables of a handle_connection task that has received       *)
(* nothing yet: no auth_data, user_id unbound, no event given to the graph *)
NoHandler ==
    [pc |-> "idle", type |-> "none", messages |-> <<>>, goals |-> <<>>,
     routines |-> {}, finished |-> FALSE,
     auth_data |-> [type |-> "none", token |-> "absent"],
     user_id |-> "unbound", events |-> 0]

(* await websocket.accept() *)
Accept(ws) ==
    /\ sockets[ws] = "new"
    /\ sockets' = [sockets EXCEPT ![ws] = "accepted"]
    /\ UNCHANGED <<active_users, turns, all_states, handlers, rare,
                   conn_frame>>

(* an auth message that is let through: the handler goes on to its message *)
(* loop whatever the type and the token of the first message are           *)
Authenticate_any(ws) ==
    /\ sockets[ws] = "accepted"
    /\ \E type \in {"auth", "chat", "add_goal"},
          token \in {"absent", "bad", "token_owner"} :
          /\ sockets' = [sockets EXCEPT ![ws] = "live"]
          /\ active_users' = ws
          /\ all_states' =
                IF user_id \in DOMAIN all_states THEN all_states
                ELSE [u \in {user_id} |-> NoSession]
          /\ handlers' = [handlers EXCEPT
                            ![ws].auth_data = [type |-> type,
                                               token |-> token],
                            ![ws].user_id = user_id]
    /\ UNCHANGED <<turns, rare, conn_frame>>

(* the first message: when its type is not "auth", when it has no token or *)
(* when the token does not verify (or when the client goes away instead)   *)
(* the socket is closed and the handler ends, user_id unbound; otherwise   *)
(* active_users[user_id] = websocket and user_states[user_id] is created   *)
(* unless the user has one                                                 *)
Authenticate(ws) ==
    /\ sockets[ws] = "accepted"
    /\ \E type \in {"auth", "chat", "add_goal"},
          token \in {"absent", "bad", "token_owner"} :
          IF type # "auth" \/ token = "absent"
               \/ verify_google_token(token) = "none"
          THEN /\ sockets' = [sockets EXCEPT ![ws] = "closed"]
               /\ handlers' = [handlers EXCEPT
                                 ![ws].auth_data = [type |-> type,
                                                    token |-> token]]
               /\ UNCHANGED <<active_users, all_states>>
          ELSE /\ sockets' = [sockets EXCEPT ![ws] = "live"]
               /\ active_users' = ws
               /\ all_states' =
                     IF verify_google_token(token) \in DOMAIN all_states
                     THEN all_states
                     ELSE [u \in DOMAIN all_states
                                   \cup {verify_google_token(token)} |->
                             IF u \in DOMAIN all_states THEN all_states[u]
                             ELSE NoSession]
               /\ handlers' = [handlers EXCEPT
                                 ![ws].auth_data = [type |-> type,
                                                    token |-> token],
                                 ![ws].user_id = verify_google_token(token)]
    /\ UNCHANGED <<turns, rare, conn_frame>>

(* a chat or an add_goal message of the message loop, up to                *)
(* await graph.ainvoke                                                     *)
ConnEvent(ws) ==
    /\ sockets[ws] = "live"
    /\ handlers[ws].pc = "idle"
    /\ rare < MaxRare
    /\ LET uid == handlers[ws].user_id
           conversation_history ==
               Append(all_states[uid].conversation_history,
                      UserDict(CHello))
       IN \E type \in {"chat", "add_goal"} :
             /\ type = "add_goal" => Len(all_states[uid].goals) < MaxGoals
             /\ all_states' =
                   IF type = "chat"
                   THEN [all_states EXCEPT ![uid].conversation_history =
                                               conversation_history]
                   ELSE all_states
             /\ handlers' = [handlers EXCEPT
                   ![ws].pc = "ainvoke",
                   ![ws].type = type,
                   ![ws].messages =
                       IF type = "chat" THEN conversation_history
                       ELSE <<UserDict(Envelope("add_goal",
                                AllFields \cup {"user_id", "milestones",
                                                "email_updates"}))>>,
                   ![ws].goals = all_states[uid].goals,
                   ![ws].routines = all_states[uid].routines,
                   ![ws].finished = all_states[uid].finished,
                   ![ws].events = @ + 1]
    /\ rare' = rare + 1
    /\ UNCHANGED <<sockets, active_users, turns, conn_frame>>

(* the run returns and user_states[user_id] = {...}; when it raised, the   *)
(* except clause leaves user_states alone                                  *)
ConnFinish(ws) ==
    /\ sockets[ws] = "live"
    /\ handlers[ws].pc = "ainvoke"
    /\ LET uid == handlers[ws].user_id
       IN \E result \in ainvoke(handlers[ws].messages, handlers[ws].goals,
                                 handlers[ws].routines,
                                 handlers[ws].finished) :
             IF result.raised THEN UNCHANGED all_states
             ELSE all_states' = [all_states EXCEPT ![uid] =
                    [goals |-> result.goals,
                     routines |-> result.routines,
                     finished |-> result.finished,
                     conversation_history |->
                         IF handlers[ws].type = "chat"
                         THEN trim_conversation_history(
                                  updated_conversation_history(
                                      handlers[ws].messages,
                                      result.messages))
                         ELSE all_states[uid].conversation_history]]
    /\ handlers' = [handlers EXCEPT ![ws].pc = "idle"]
    /\ UNCHANGED <<sockets, active_users, turns, rare, conn_frame>>

(* the client goes away, receive_json raises and the handler reaches its   *)
(* finally clause: del active_users[user_id], a KeyError when the key is   *)
(* gone, then websocket.close()                                            *)
Disconnect(ws) ==
    /\ sockets[ws] = "live"
    /\ handlers[ws].pc = "idle"
    /\ IF active_users = "none"
       THEN /\ sockets' = [sockets EXCEPT ![ws] = "KeyError"]
            /\ UNCHANGED active_users
       ELSE /\ sockets' = [sockets EXCEPT ![ws] = "closed"]
            /\ active_users' = "none"
    /\ UNCHANGED <<turns, all_states, handlers, rare, conn_frame>>

(* the client connects again, with a new WebSocket and a new handler *)
Reconnect(ws) ==
    /\ sockets[ws] \in {"closed", "KeyError"}
    /\ turns < MaxTurns
    /\ sockets' = [sockets EXCEPT ![ws] = "new"]
    /\ handlers' = [handlers EXCEPT ![ws] = NoHandler]
    /\ turns' = turns + 1
    /\ UNCHANGED <<active_users, all_states, rare, conn_frame>>

InitConn ==
    /\ messages = <<>>
    /\ finished = FALSE
    /\ goals = <<>>
    /\ routines = {}
    /\ node = "handle_connection"
    /\ steps = 0
    /\ route = "none"
    /\ user_states = NoSession
    /\ pending = "none"
    /\ before = 0
    /\ turns = 0
    /\ rare = 0
    /\ llm_call = NoCall
    /\ tool_runs = <<>>
    /\ persisted = <<>>
    /\ active_users = "none"
    /\ ws_connections = "none"
    /\ reply = NoReply
    /\ db_conn = NoRows
    /\ db_calls = [s \in Sessions |-> NoDbCall]
    /\ goal_args = NoRequest
    /\ sockets = [ws \in WebSockets |-> "new"]
    /\ all_states = [u \in {} |-> NoSession]
    /\ handlers = [ws \in WebSockets |-> NoHandler]
    /\ inbox = EmptySocket

NextConn ==
    \E ws \in WebSockets :
        \/ Accept(ws) \/ Authenticate(ws) \/ ConnEvent(ws) \/ ConnFinish(ws)
        \/ Disconnect(ws) \/ Reconnect(ws)

SpecConn == InitConn /\ [][NextConn]_vars

----------------------------------------------------------------------------
(* SpecUsers: the handlers of two users on one event loop.  A handler      *)
(* gives way at await graph.ainvoke(...): between the event and the result *)
(* of the run the other handler may take events and finish turns.          *)

users_frame == <<messages, finished, goals, routines, node, steps, route,
                 user_states, pending, before, rare, llm_call, tool_runs,
                 persisted, active_users, lambda_state, db_conn, db_calls,
                 goal_args, sockets, inbox>>

(* current_state = user_states[<the first user>] *)
current_state_of_first(uid) == all_states[user_id]

(* current_state = user_states[user_id] *)
current_state(uid) == all_states[uid]

(* message_type == "chat" up to await graph.ainvoke *)
UserChat(uid) ==
    /\ handlers[uid].pc = "idle"
    /\ turns < MaxSteps
    /\ LET conversation_history ==
               Append(current_state(uid).conversation_history,
                      UserDict(CHello))
       IN /\ all_states' = [all_states EXCEPT
                              ![uid].conversation_history =
                                  conversation_history]
          /\ handlers' = [handlers EXCEPT ![uid] =
                            [pc |-> "ainvoke", type |-> "chat",
                             messages |-> conversation_history,
                             goals |-> current_state(uid).goals,
                             routines |-> current_state(uid).routines,
                             finished |-> current_state(uid).finished]]
    /\ turns' = turns + 1
    /\ UNCHANGED users_frame

(* message_type == "add_goal" up to await graph.ainvoke *)
UserAddGoal(uid) ==
    /\ handlers[uid].pc = "idle"
    /\ turns < MaxSteps
    /\ Len(current_state(uid).goals) < MaxGoals
    /\ handlers' = [handlers EXCEPT ![uid] =
                      [pc |-> "ainvoke", type |-> "add_goal",
                       messages |->
                           <<UserDict(Envelope("add_goal",
                               AllFields \cup {"user_id", "milestones",
                                               "email_updates"}))>>,
                       goals |-> current_state(uid).goals,
                       routines |-> current_state(uid).routines,
                       finished |-> current_state(uid).finished]]
    /\ turns' = turns + 1
    /\ UNCHANGED <<all_states, users_frame>>

(* the run returns and user_states[user_id] = {...}; when it raised, the   *)
(* except clause leaves user_states alone                                  *)
UserFinish(uid) ==
    /\ handlers[uid].pc = "ainvoke"
    /\ \E result \in ainvoke(handlers[uid].messages, handlers[uid].goals,
                              handlers[uid].routines,
                              handlers[uid].finished) :
          IF result.raised THEN UNCHANGED all_states
          ELSE all_states' = [all_states EXCEPT ![uid] =
                 [goals |-> result.goals,
                  routines |-> result.routines,
                  finished |-> result.finished,
                  conversation_history |->
                      IF handlers[uid].type = "chat"
                      THEN trim_conversation_history(
                               updated_conversation_history(
                                   handlers[uid].messages, result.messages))
                      ELSE current_state(uid).conversation_history]]
    /\ handlers' = [handlers EXCEPT ![uid] = NoEvent]
    /\ UNCHANGED <<turns, users_frame>>

InitUsers ==
    /\ messages = <<>>
    /\ finished = FALSE
    /\ goals = <<>>
    /\ routines = {}
    /\ node = "handle_connection"
    /\ steps = 0
    /\ route = "none"
    /\ user_states = NoSession
    /\ pending = "none"
    /\ before = 0
    /\ turns = 0
    /\ rare = 0
    /\ llm_call = NoCall
    /\ tool_runs = <<>>
    /\ persisted = <<>>
    /\ active_users = "ws"
    /\ ws_connections = "none"
    /\ reply = NoReply
    /\ InitWorld

NextUsers ==
    \E uid \in Sessions : UserChat(uid) \/ UserAddGoal(uid) \/ UserFinish(uid)

SpecUsers == InitUsers /\ [][NextUsers]_vars

----------------------------------------------------------------------------
(* SpecHuman: nodes.human_node await by await, called on a GoalState, with *)
(* the events the client sends on the socket meanwhile.                    *)

(* what a client sends: speech, and events of the other types *)
HumanEvents ==
    { [type |-> "userSpeech", text |-> text] :
          text \in {"hello", "BYE", "quit"} }
    \cup { [type |-> "chat", text |-> "hello"],
           [type |-> "absent", text |-> "quit"] }

human_frame == <<route, before, turns, rare, llm_call, tool_runs,
                 persisted, lambda_state, db_conn, db_calls, goal_args,
                 sockets, all_states, handlers>>

(* human_node taking every event that has a text *)
is_userSpeech_any(msg) == msg.text # ""

(* msg.get("type") == "userSpeech" *)
is_userSpeech(msg) == msg.type = "userSpeech"

(* ws = active_users.get(user_id); last_msg = state["messages"][-1];       *)
(* await ws.send_json(...)                                                 *)
HumanEnter ==
    /\ node = "CALL"
    /\ pending' = "human"
    /\ node' = IF active_users = "none" THEN "ERROR"       \* RuntimeError
               ELSE IF messages = <<>> THEN "ERROR"        \* IndexError
               ELSE "receive_json"
    /\ UNCHANGED <<messages, finished, goals, routines, steps, user_states,
                   active_users, inbox, human_frame>>

(* the client sends an event *)
ClientSends ==
    /\ node \in {"CALL", "receive_json"}
    /\ active_users # "none"
    /\ Len(inbox.pending) + Len(inbox.received) < MaxMsgs
    /\ \E event \in HumanEvents :
          inbox' = [inbox EXCEPT !.pending = Append(@, event)]
    /\ UNCHANGED <<messages, finished, goals, routines, node, steps,
                   user_states, pending, active_users, human_frame>>

(* msg = await ws.receive_json(); if it is speech the loop ends, finished  *)
(* is set for an exit keyword and the node returns                         *)
(* state | {"messages": [HumanMessage(content=msg["text"])]}               *)
HumanReceive ==
    /\ node = "receive_json"
    /\ inbox.pending # <<>>
    /\ LET msg == Head(inbox.pending) IN
       /\ inbox' = [inbox EXCEPT !.pending = Tail(@),
                                  !.received = Append(@, msg)]
       /\ IF is_userSpeech(msg)
          THEN /\ finished' = IF lower(msg.text) \in exit_keywords
                              THEN TRUE ELSE finished
               /\ messages' = <<HumanMessage(Text(msg.text))>>
               /\ node' = "human"
               /\ steps' = steps + 1
          ELSE UNCHANGED <<messages, finished, node, steps>>
    /\ UNCHANGED <<goals, routines, user_states, pending, active_users,
                   human_frame>>

(* a socket that closes and ends the run with finished set *)
ReceiveRaises_finishing ==
    /\ node = "receive_json"
    /\ inbox.pending = <<>>
    /\ node' = "ERROR"
    /\ finished' = TRUE
    /\ steps' = steps + 1
    /\ inbox' = [inbox EXCEPT !.closed = TRUE]
    /\ UNCHANGED <<messages, goals, routines, user_states, pending,
                   active_users, human_frame>>

(* the socket closes while the node waits: receive_json raises             *)
(* WebSocketDisconnect, which leaves human_node and the run                *)
ReceiveRaises ==
    /\ node = "receive_json"
    /\ inbox.pending = <<>>
    /\ node' = "ERROR"
    /\ steps' = steps + 1
    /\ inbox' = [inbox EXCEPT !.closed = TRUE]
    /\ UNCHANGED <<messages, finished, goals, routines, user_states,
                   pending, active_users, human_frame>>

(* handle_connection: except Exception sends the error message; on a       *)
(* closed socket that send raises too, and finally removes the user from   *)
(* active_users and closes; user_states[user_id] is left as it was         *)
ExceptHandler ==
    /\ node = "ERROR"
    /\ node' = "except"
    /\ active_users' = IF inbox.closed THEN "none" ELSE active_users
    /\ UNCHANGED <<messages, finished, goals, routines, steps, user_states,
                   pending, inbox, human_frame>>

InitHuman ==
    /\ messages \in {<<>>, <<AssistantDict(CReply)>>}
    /\ finished \in BOOLEAN
    /\ goals = <<"G">>
    /\ routines = {"G"}
    /\ node = "CALL"
    /\ steps = 0
    /\ route = "none"
    /\ user_states = [goals |-> goals, routines |-> routines,
                      finished |-> finished,
                      conversation_history |-> messages]
    /\ pending = "none"
    /\ before = 0
    /\ turns = 0
    /\ rare = 0
    /\ llm_call = NoCall
    /\ tool_runs = <<>>
    /\ persisted = <<<<user_id, "G">>>>
    /\ active_users \in {"none", "ws"}
    /\ ws_connections = "none"
    /\ reply = NoReply
    /\ InitWorld

NextHuman ==
    \/ HumanEnter
    \/ ClientSends
    \/ HumanReceive
    \/ ReceiveRaises
    \/ ExceptHandler

SpecHuman == InitHuman /\ [][NextHuman]_vars

----------------------------------------------------------------------------
(* SpecTitles: the add_goal branch of nodes.goal_action_node on the goals  *)
(* and routines of one session, with the titles the requests carry.  Here  *)
(* goals holds the titles in the order of goals.append and routines maps   *)
(* a title to the number of rows of its routine.                           *)

Titles == {"T", "U", "V"}

(* goals.append(goal); routines[goal_title] = routine; then                *)
(* add_goal_tool.invoke, whose row is stored when it answers success       *)
AddGoalTitled ==
    /\ Len(goals) < MaxGoals
    /\ \E title \in Titles, routine \in 1..MaxRoutine,
          response \in AddGoalOutcomes :
          /\ goals' = Append(goals, title)
          /\ routines' = [t \in DOMAIN routines \cup {title} |->
                             IF t = title THEN routine ELSE routines[t]]
          /\ persisted' = IF response = CAdded
                          THEN Append(persisted, <<user_id, title>>)
                          ELSE persisted
          /\ tool_runs' = Append(tool_runs, [name |-> "add_goal",
                                             user_id |-> user_id])
          /\ messages' = <<ToolMessage(response, Len(goals) + 1)>>
    /\ UNCHANGED <<finished, node, steps, route, user_states, pending,
                   before, turns, rare, llm_call, active_users,
                   lambda_state, world>>

InitTitles ==
    /\ messages = <<>>
    /\ finished = FALSE
    /\ goals = <<>>
    /\ routines = <<>>
    /\ node = "goal_actions"
    /\ steps = 0
    /\ route = "none"
    /\ user_states = NoSession
    /\ pending = "none"
    /\ before = 0
    /\ turns = 0
    /\ rare = 0
    /\ llm_call = NoCall
    /\ tool_runs = <<>>
    /\ persisted = <<>>
    /\ active_users = "ws"
    /\ ws_connections = "none"
    /\ reply = NoReply
    /\ InitWorld

SpecTitles == InitTitles /\ [][AddGoalTitled]_vars

----------------------------------------------------------------------------
(* SpecLambda: lambda_ws.handler for the events of one connection.  The    *)
(* row of the connection expires with time: get_user_by_connection and     *)
(* cleanup_expired then see no row.                                        *)

Tokens == {"absent", "bad", "token_owner", "token_mallory"}

ArgsUsers == {"absent", user_id, OtherUser}

(* what an event leaves of the variables of the graph and the socket *)
lambda_frame == <<messages, finished, goals, routines, steps, route,
                  user_states, before, rare, active_users, world>>

(* the row as on_message finds it *)
RowSeenBy(expired) == IF expired THEN "none" ELSE ws_connections

(* msg_type == "auth" *)
LambdaAuth ==
    /\ turns < MaxTurns
    /\ \E token \in Tokens, expired \in BOOLEAN :
          IF token = "absent" \/ verify_google_token(token) = "none"
          THEN /\ reply' = Reply("auth_response", "error", "none")
               /\ ws_connections' = RowSeenBy(expired)
          ELSE /\ reply' = Reply("auth_response", "success",
                                 verify_google_token(token))
               /\ ws_connections' = verify_google_token(token)
    /\ pending' = "auth"
    /\ node' = "lambda"
    /\ turns' = turns + 1
    /\ llm_call' = NoCall
    /\ tool_runs' = <<>>
    /\ UNCHANGED <<persisted, lambda_frame>>

(* msg_type == "add_goal" *)
LambdaAddGoal ==
    /\ turns < MaxTurns
    /\ \E args_user \in ArgsUsers, expired \in BOOLEAN,
          fields \in {AllFields, CoreFields},
          response \in AddGoalOutcomes, raises \in BOOLEAN :
          LET uid == resolve_user(args_user, RowSeenBy(expired)) IN
          /\ ws_connections' = RowSeenBy(expired)
          /\ IF uid = "none"
             THEN /\ reply' = Reply("add_goal_response", "error", "none")
                  /\ UNCHANGED <<tool_runs, persisted>>
             ELSE IF ~ (AllFields \subseteq fields)
             THEN /\ reply' = Reply("add_goal_response", "error", uid)
                  /\ UNCHANGED <<tool_runs, persisted>>
             ELSE IF raises
             THEN /\ reply' = Reply("add_goal_response", "error", uid)
                  /\ UNCHANGED <<tool_runs, persisted>>
             ELSE /\ Len(persisted) < MaxGoals
                  /\ reply' = Reply("add_goal_response", "success", uid)
                  /\ tool_runs' = <<[name |-> "add_goal", user_id |-> uid]>>
                  /\ persisted' = persisted \o StoredBy(response, uid)
    /\ pending' = "add_goal"
    /\ node' = "lambda"
    /\ turns' = turns + 1
    /\ llm_call' = NoCall
    /\ UNCHANGED lambda_frame

(* msg_type == "chat" *)
LambdaChat ==
    /\ turns < MaxTurns
    /\ \E args_user \in ArgsUsers, expired \in BOOLEAN,
          message \in {CHello, CEmpty, CNone}, llm \in LLMOutcomes :
          LET uid == resolve_user(args_user, RowSeenBy(expired)) IN
          /\ ws_connections' = RowSeenBy(expired)
          /\ IF uid = "none" \/ message.syn = "none" \/ message.txt = ""
             THEN /\ reply' = Reply("chat_response", "error", "none")
                  /\ llm_call' = NoCall
             ELSE /\ reply' = Reply("chat_response",
                                    IF llm = LLMException THEN "error"
                                    ELSE "success", uid)
                  /\ llm_call' = LLMCall(<<HumanMessage(message)>>, llm)
    /\ pending' = "chat"
    /\ node' = "lambda"
    /\ turns' = turns + 1
    /\ tool_runs' = <<>>
    /\ UNCHANGED <<persisted, lambda_frame>>

(* any other msg_type *)
LambdaOther ==
    /\ turns < MaxTurns
    /\ \E expired \in BOOLEAN : ws_connections' = RowSeenBy(expired)
    /\ reply' = Reply("error", "error", "none")
    /\ pending' = "other"
    /\ node' = "lambda"
    /\ turns' = turns + 1
    /\ llm_call' = NoCall
    /\ tool_runs' = <<>>
    /\ UNCHANGED <<persisted, lambda_frame>>

(* routeKey == "$disconnect": delete_connection *)
LambdaDisconnect ==
    /\ turns < MaxTurns
    /\ ws_connections' = "none"
    /\ pending' = "disconnect"
    /\ node' = "lambda"
    /\ turns' = turns + 1
    /\ llm_call' = NoCall
    /\ tool_runs' = <<>>
    /\ UNCHANGED <<reply, persisted, lambda_frame>>

InitLambda ==
    /\ messages = <<>>
    /\ finished = FALSE
    /\ goals = <<>>
    /\ routines = {}
    /\ node = "lambda"
    /\ steps = 0
    /\ route = "none"
    /\ user_states = NoSession
    /\ pending = "none"
    /\ before = 0
    /\ turns = 0
    /\ rare = 0
    /\ llm_call = NoCall
    /\ tool_runs = <<>>
    /\ persisted = <<>>
    /\ active_users = "none"
    /\ ws_connections = "none"
    /\ reply = NoReply
    /\ InitWorld

NextLambda ==
    LambdaAuth \/ LambdaAddGoal \/ LambdaChat \/ LambdaOther
        \/ LambdaDisconnect

SpecLambda == InitLambda /\ [][NextLambda]_vars

----------------------------------------------------------------------------
(* Properties *)

Classified == route # "none" /\ messages # <<>>

TurnOver == node \in {"END", "ERROR"}

(* an assistant text without tool calls, as a dict or as an AIMessage *)
IsAssistantText(m) ==
    /\ m.form \in {"dict", "AIMessage"}
    /\ m.role = "assistant"
    /\ Len(m.tool_calls) = 0

(* a ToolMessage object, or any message carrying a tool_call_id *)
IsToolResult(m) == m.form = "ToolMessage" \/ m.tool_call_id # 0

(* user content that parses as a typed request envelope *)
IsUserEnvelope(m) ==
    /\ m.role = "user"
    /\ m.content.syn = "json_object"
    /\ m.content.type # "absent"

(* C1: every turn terminates: from the initial routing the run reaches End *)
(* (or aborts) after a bounded number of node executions, never more than  *)
(* recursion_limit = 100 and never as many as the MaxSteps explored, so    *)
(* no run cycles between nodes.                                            *)
C1_TurnTerminates ==
    /\ [](steps < MaxSteps /\ steps <= recursion_limit)
    /\ <>TurnOver

(* a run in which the backend failed has ended with the fallback text *)
C1_Witness ==
    /\ node = "END"
    /\ steps = 1
    /\ Last(messages) = FallbackDict

(* C2: whenever the last message is an assistant text without tool calls   *)
(* (fallback or not, dict or AIMessage) the classifier returns End, and    *)
(* the reasoning node never runs a second time in a turn.                  *)
C2_NoSelfConversation ==
    /\ (Classified /\ IsAssistantText(Last(messages))) => route = "__end__"
    /\ steps >= 1 => node # "goal_ai"

(* the classifier applied to the fallback the reasoning node just appended *)
C2_Witness ==
    /\ route = "__end__"
    /\ ~ finished
    /\ steps = 1
    /\ Last(messages) = FallbackDict

(* C3: whenever the last message is a ToolResult (a ToolMessage, or any     *)
(* message with a tool_call_id) the classifier returns End, and a run      *)
(* whose node left a ToolResult last executes no further node.             *)
C3_ToolResultEnds ==
    /\ (Classified /\ IsToolResult(Last(messages))) => route = "__end__"
    /\ (steps >= 1 /\ messages # <<>> /\ IsToolResult(Last(messages)))
          => TurnOver

(* the classifier applied to the ToolMessage of a self-triggered get_goals *)
C3_Witness ==
    /\ route = "__end__"
    /\ ~ finished
    /\ steps = 1
    /\ messages # <<>>
    /\ Last(messages).form = "ToolMessage"

(* C4: a finished session is terminal: with finished = true every           *)
(* classification, the initial routing included, is End and no reasoning   *)
(* or api node executes.                                                   *)
C4_FinishedIsTerminal ==
    finished =>
        /\ node \in {"START", "END"}
        /\ steps = 0
        /\ Classified => route = "__end__"

(* C5: in the stored transcript, after any sequence of completed turns, no  *)
(* two assistant messages are adjacent.                                    *)
C5_NoAdjacentAssistants ==
    pending = "none" =>
        \A i \in 1..(Len(user_states.conversation_history) - 1) :
            ~ /\ user_states.conversation_history[i].role = "assistant"
              /\ user_states.conversation_history[i + 1].role = "assistant"

(* C6: every ToolResult in messages carries the call_id of a ToolCall that  *)
(* appears earlier in the same messages.                                   *)
C6_ToolResultsHaveCalls ==
    \A i \in 1..Len(messages) :
        IsToolResult(messages[i]) =>
            \E j \in 1..(i - 1) :
                messages[i].tool_call_id \in IdsOfCalls(messages[j].tool_calls)

(* C7 as stated: after every completed turn the stored transcript is at    *)
(* least as long as before the turn.                                       *)
C7_LengthNonDecreasing ==
    node = "DONE" => Len(user_states.conversation_history) >= before

(* C7, amended: after every completed turn the stored transcript is at      *)
(* least as long as before the turn, or it holds at least max_messages - 1 *)
(* messages (it was trimmed to the last max_messages, less a leading       *)
(* assistant message).                                                     *)
C7_LengthNonDecreasingUnlessTrimmed ==
    node = "DONE" =>
        \/ Len(user_states.conversation_history) >= before
        \/ Len(user_states.conversation_history) >= max_messages - 1

(* a completed turn whose transcript was trimmed below its former length *)
C7_Witness ==
    /\ node = "DONE"
    /\ before = max_messages
    /\ Len(user_states.conversation_history) = max_messages - 1

(* C8: the initial state of a turn is the api node exactly when the last    *)
(* inbound message parses as a JSON object with a type field; in every     *)
(* other case, the empty message list included, it is the reasoning node.  *)
C8_InitialRouting ==
    (node # "START" /\ steps = 0) =>
        IF messages # <<>> /\ Last(messages).content.syn = "json_object"
              /\ Last(messages).content.type # "absent"
        THEN node = "api"
        ELSE node = "goal_ai"

(* a turn that starts at the api node for an envelope of unknown type *)
C8_Witness ==
    /\ node = "api"
    /\ steps = 0
    /\ Last(messages).content = CEnvFoo

(* C9 as stated: for a last message that is a typed request envelope from  *)
(* the user the classifier routes to goal_actions, never to human.         *)
C9_EnvelopeToActionExec ==
    (Classified /\ IsUserEnvelope(Last(messages))) => route = "goal_actions"

(* C9, amended: for a last message that is a typed request envelope from    *)
(* the user the classifier routes to human (to End when the session is     *)
(* finished); it never routes to goal_actions and adds no tool call.       *)
C9_EnvelopeToHuman ==
    (Classified /\ IsUserEnvelope(Last(messages))) =>
        route = IF finished THEN "__end__" ELSE "human"

(* the classifier applied to an add_goal envelope of an open session *)
C9_Witness ==
    /\ route = "human"
    /\ ~ finished
    /\ Last(messages).content = CEnvAddFull

(* C10: for an assistant message with tool calls in an unfinished session   *)
(* the classifier returns goal_actions if a requested name is an action    *)
(* tool and goal_tools otherwise, never End or goal_ai.                    *)
C10_ToolCallsAreRouted ==
    (Classified /\ ~ finished /\ Last(messages).role = "assistant"
        /\ Len(Last(messages).tool_calls) > 0) =>
        route = IF \E i \in 1..Len(Last(messages).tool_calls) :
                      Last(messages).tool_calls[i].name \in goal_action_tools
                THEN "goal_actions"
                ELSE "goal_tools"

(* C11: a message whose text repeats a tool-result field marker is treated  *)
(* as a ToolResult whatever its role: the classifier returns End for it,   *)
(* and the backend is never called with it as the latest user message.     *)
C11_MarkedContentIsToolResult ==
    /\ (Classified /\ Last(messages).content.markers >= 2)
          => route = "__end__"
    /\ (llm_call.invoked /\ llm_call.messages # <<>>)
          => ~ /\ Last(llm_call.messages).form = "HumanMessage"
               /\ Last(llm_call.messages).content.markers >= 2

(* the state the node was called on *)
Given == user_states

(* the tool calls the node was given, <<>> when the last message has none *)
GivenCalls ==
    IF Given.conversation_history = <<>> THEN <<>>
    ELSE IF ToolCallsRaise(Last(Given.conversation_history)) THEN <<>>
    ELSE ToolCallsOf(Last(Given.conversation_history))

(* C12: when the first tool call given to tool dispatch names an            *)
(* unrecognized tool, dispatch returns (no exception leaves it) and the    *)
(* returned messages hold a ToolResult carrying that call's id.            *)
C12_UnknownToolIsReported ==
    (pending = "goal_action_node" /\ GivenCalls # <<>>
        /\ GivenCalls[1].name \notin {"add_goal", "get_goals"}) =>
        /\ node # "ERROR"
        /\ \E i \in 1..Len(messages) :
              /\ IsToolResult(messages[i])
              /\ messages[i].tool_call_id = GivenCalls[1].id

(* C13: after the Human-Wait node received a speech text, if the text is   *)
(* q, quit, exit or bye in any letter case the state is finished and the   *)
(* next route is End; for any other text finished is what it was before,   *)
(* and the next route is the reasoning node when it is false.              *)
C13_ExitKeywordFinishes ==
    (node = "human" /\ messages # <<>>) =>
        IF Last(messages).content.txt
              \in {"q", "quit", "exit", "bye", "BYE", "Quit"}
        THEN /\ finished
             /\ route # "none" => route = "__end__"
        ELSE /\ finished = Given.finished
             /\ (route # "none" /\ ~ finished) => route = "goal_ai"

(* an open session that received BYE is finished and routed to End *)
C13_Witness ==
    /\ node = "human"
    /\ Last(messages) = HumanMessage(Text("BYE"))
    /\ ~ Given.finished
    /\ finished
    /\ route = "__end__"

(* C14: finished is monotonic: no step of a run takes a state whose        *)
(* finished flag is true to a state whose finished flag is false.          *)
C14_FinishedMonotonic == [][finished => finished']_vars

(* C15: the messages the reasoning node returns are the messages it was    *)
(* given, unchanged and in order, followed by exactly one new message.     *)
C15_AppendsExactlyOne ==
    (pending = "goal_ai" /\ node = "goal_ai") =>
        /\ Len(messages) = Len(Given.conversation_history) + 1
        /\ SubSeq(messages, 1, Len(Given.conversation_history))
              = Given.conversation_history

(* C16: a call of the backend never makes the reasoning node raise; when   *)
(* the call failed or returned empty or blank content the appended message *)
(* is the help text with is_fallback set; and every message the node       *)
(* appends has content that is not empty.                                  *)
C16_FallbackOnFaultOrEmpty ==
    pending = "goal_ai" =>
        /\ llm_call.invoked => node = "goal_ai"
        /\ (llm_call.invoked
              /\ (llm_call.reply.form = "Exception"
                    \/ llm_call.reply.content.txt \in {"", "  "}))
              => /\ Last(messages).content = CHelp
                 /\ Last(messages).is_fallback
        /\ node = "goal_ai"
              => /\ Last(messages).content.syn # "none"
                 /\ Last(messages).content.txt \notin {"", "  "}

(* the backend returned blanks and the node appended the fallback *)
C16_Witness ==
    /\ pending = "goal_ai"
    /\ node = "goal_ai"
    /\ llm_call.invoked
    /\ llm_call.reply = AIMessage(CSpaces, <<>>)
    /\ Last(messages) = FallbackDict

(* texts that tools return as their result *)
ToolResultContents == GetGoalsOutcomes \cup AddGoalOutcomes

(* C17: the history passed to the backend holds no message whose content   *)
(* was produced as a tool result, under any role.                          *)
C17_NoToolResultInPrompt ==
    \A i \in 1..Len(llm_call.messages) :
        llm_call.messages[i].content \notin ToolResultContents

(* C18: every tool that tool dispatch invokes runs with the user_id of the *)
(* session, whatever user_id the tool call carried in its args.            *)
C18_ToolsRunAsSessionUser ==
    \A i \in 1..Len(tool_runs) : tool_runs[i].user_id = user_id

(* a get_goals call that named another user was run for the session's user *)
C18_Witness ==
    /\ pending = "goal_action_node"
    /\ GivenCalls # <<>>
    /\ GivenCalls[1].name = "get_goals"
    /\ GivenCalls[1].user_id = OtherUser
    /\ tool_runs # <<>>
    /\ tool_runs[1] = [name |-> "get_goals", user_id |-> user_id]

(* C19: an add_goal or chat event is carried out for the user whose token  *)
(* was verified for the connection, never for a user named in the event,   *)
(* and is answered with an error on a connection without a verified user.  *)
C19_IdentityFromVerifiedToken ==
    pending \in {"add_goal", "chat"} =>
        /\ \A i \in 1..Len(tool_runs) :
              tool_runs[i].user_id = ws_connections
        /\ reply.status = "success" => reply.user_id = ws_connections
        /\ ws_connections = "none" => reply.status = "error"

(* the node was called with an add_goal request that lacks one of title,  *)
(* category and description: an envelope as the last message of the api    *)
(* node or of the reasoning node, or the first tool call of tool dispatch  *)
GivenIncompleteAddGoal ==
    \/ /\ pending \in {"api", "goal_ai"}
       /\ Given.conversation_history # <<>>
       /\ pending = "goal_ai"
             => Last(Given.conversation_history).form = "HumanMessage"
       /\ Last(Given.conversation_history).content.syn = "json_object"
       /\ Last(Given.conversation_history).content.type = "add_goal"
       /\ ~ ({"title", "category", "description"}
               \subseteq Last(Given.conversation_history).content.args)
    \/ /\ pending = "goal_action_node"
       /\ GivenCalls # <<>>
       /\ GivenCalls[1].name = "add_goal"
       /\ ~ ({"title", "category", "description"}
               \subseteq GivenCalls[1].args)

(* C20: an add_goal request that lacks title, category or description ends *)
(* in an error (an error text, or an exception) and creates nothing: the   *)
(* goals and routines of the session are those it was called with, and no  *)
(* row is stored.                                                          *)
C20_IncompleteAddGoalCreatesNothing ==
    GivenIncompleteAddGoal =>
        /\ goals = Given.goals
        /\ routines = Given.routines
        /\ persisted = <<>>
        /\ tool_runs = <<>>
        /\ \/ node = "ERROR"
           \/ Last(messages).content \in {CStatMissing, CMissing}

(* the api node answered an incomplete request of a session with a goal *)
C20_Witness ==
    /\ GivenIncompleteAddGoal
    /\ pending = "api"
    /\ node = "api"
    /\ Given.goals = <<"G">>
    /\ goals = <<"G">>
    /\ Last(messages).content = CStatMissing

(* the node was called with an add_goal request that carries title,       *)
(* category and description: an envelope as the last message of the api    *)
(* node, or a HumanMessage envelope as the last message of the reasoning   *)
(* node                                                                    *)
GivenCompleteAddGoal ==
    /\ pending \in {"api", "goal_ai"}
    /\ Given.conversation_history # <<>>
    /\ pending = "goal_ai"
          => Last(Given.conversation_history).form = "HumanMessage"
    /\ Last(Given.conversation_history).content.syn = "json_object"
    /\ Last(Given.conversation_history).content.type = "add_goal"
    /\ {"title", "category", "description"}
          \subseteq Last(Given.conversation_history).content.args

(* C21: on every entry path an add_goal request that carries title,        *)
(* category and description is never answered with a missing-fields text,  *)
(* whether or not it carries a deadline.                                   *)
C21_ThreeFieldsSuffice ==
    (GivenCompleteAddGoal /\ node # "ERROR") =>
        Last(messages).content \notin {CStatMissing, CMissing}

(* C22: the status sent for an add_goal request tells whether the goal was *)
(* stored: a reply with status success is sent only by an event that       *)
(* committed the goal, a failed store is answered with status error.       *)
C22_StatusReflectsPersistence ==
    [][ (pending' = "add_goal" /\ reply'.status = "success")
            => Len(persisted') = Len(persisted) + 1 ]_vars

(* C23: goal and routine rows are committed together or not at all: every  *)
(* committed goal row has all the rows of its routine committed, and an    *)
(* add_goal that returned status error has left no committed row.          *)
C23_AtomicPersistence ==
    /\ \A row \in db_conn.goals : \A day_number \in 1..MaxRoutine :
          RoutineRow(row.goal_id, day_number) \in db_conn.routines
    /\ \A s \in Sessions :
          (db_calls[s].pc = "idle" /\ db_calls[s].status = "error") =>
              \A row \in db_conn.goals : row.goal_id # db_calls[s].goal_id

(* the most granular frequency of a list: daily > weekly > monthly > never *)
MostGranular(items) ==
    CHOOSE v \in valid_email_updates :
        /\ v \in items \/ v = "never"
        /\ \A w \in items \cap {"daily", "weekly", "monthly"} :
              <<v, w>> \in { <<"daily", "daily">>, <<"daily", "weekly">>,
                             <<"daily", "monthly">>, <<"weekly", "weekly">>,
                             <<"weekly", "monthly">>,
                             <<"monthly", "monthly">> }

(* C24: an add_goal request whose email-update value is a list of          *)
(* frequencies is stored, in the session and in the goals table, with the  *)
(* most granular frequency of the list; a request without the value is     *)
(* stored with never; the stored value is one of the four frequencies.     *)
C24_EmailUpdatesCollapsed ==
    (goal_args.stage = "stored" /\ goal_args.entry \in {"websocket", "api"}) =>
        /\ goal_args.row_email.kind = "str"
        /\ goal_args.row_email.items \subseteq valid_email_updates
        /\ goal_args.goal_email = goal_args.row_email
        /\ (goal_args.given.kind = "list"
              /\ goal_args.given.items \subseteq valid_email_updates)
             => goal_args.row_email = Str(MostGranular(goal_args.given.items))
        /\ goal_args.given = Absent => goal_args.row_email = Str("never")

(* the whole days from now to the midnight that begins the deadline *)
WholeDays(deadline, now) ==
    CHOOSE n \in -(MaxDate + Today + 2)..(MaxDate + 1) :
        2 * n <= 2 * deadline.day - now /\ 2 * deadline.day - now < 2 * (n + 1)

ExpectedDays(deadline, now) ==
    IF deadline.kind # "date" THEN 30
    ELSE IF WholeDays(deadline, now) >= 1 THEN WholeDays(deadline, now)
    ELSE 1

C26_OneResultPerCall ==
    (pending = "goal_action_node" /\ GivenCalls # <<>>) =>
        /\ node # "ERROR"
        /\ Len(messages) = Len(GivenCalls)
        /\ \A i \in 1..Len(messages) :
              /\ IsToolResult(messages[i])
              /\ i <= Len(GivenCalls)
                    => messages[i].tool_call_id = GivenCalls[i].id
        /\ (\A i \in 1..Len(GivenCalls) : GivenCalls[i].name = "get_goals")
              => (goals = Given.goals /\ routines = Given.routines)

(* C27: the registry has an entry for the user exactly while one of the    *)
(* user's connections is authenticated and open, the entry is the socket   *)
(* of such a connection, and no disconnect fails to remove the entry.      *)
C27_RegistryTracksLiveConnections ==
    /\ active_users # "none" <=> \E ws \in WebSockets : sockets[ws] = "live"
    /\ active_users # "none" => sockets[active_users] = "live"
    /\ \A ws \in WebSockets : sockets[ws] # "KeyError"

(* C28: a step of the handler of one user leaves the stored state of every *)
(* other user as it was, and the state a handler passes to the graph is    *)
(* built from the stored state of its own user: its goals, routines and    *)
(* finished, and for a chat its conversation history.                      *)
C28_SessionsIsolated ==
    [][ \A a \in Sessions :
          /\ handlers'[a] # handlers[a] =>
                \A b \in Sessions \ {a} : all_states'[b] = all_states[b]
          /\ (handlers[a].pc = "idle" /\ handlers'[a].pc = "ainvoke") =>
                /\ handlers'[a].goals = all_states[a].goals
                /\ handlers'[a].routines = all_states[a].routines
                /\ handlers'[a].finished = all_states[a].finished
                /\ handlers'[a].type = "chat" =>
                      SubSeq(handlers'[a].messages, 1,
                             Len(handlers'[a].messages) - 1)
                          = all_states[a].conversation_history ]_vars

(* an event of one user is taken while the run of the other is under way   *)
(* and the two users have different goals and different histories          *)
C28_Witness ==
    /\ handlers[user_id].pc = "ainvoke"
    /\ handlers[OtherUser].pc = "ainvoke"
    /\ handlers[OtherUser].type = "chat"
    /\ all_states[user_id].goals # all_states[OtherUser].goals
    /\ all_states[user_id].conversation_history
          # all_states[OtherUser].conversation_history

(* C29: while the Human-Wait node waits, the events it received are not   *)
(* speech and have changed nothing; an event it received is no longer on   *)
(* the socket; the node has returned exactly when the last event it        *)
(* received is speech, the first such, and the user message it returned    *)
(* carries the text of that event.                                         *)
C29_NonSpeechIgnored ==
    /\ node = "receive_json" =>
          /\ \A i \in 1..Len(inbox.received) :
                inbox.received[i].type # "userSpeech"
          /\ messages = Given.conversation_history
          /\ finished = Given.finished
          /\ goals = Given.goals
          /\ routines = Given.routines
    /\ node = "human" =>
          /\ inbox.received # <<>>
          /\ Last(inbox.received).type = "userSpeech"
          /\ \A i \in 1..(Len(inbox.received) - 1) :
                inbox.received[i].type # "userSpeech"
          /\ messages = <<HumanMessage(Text(Last(inbox.received).text))>>
          /\ goals = Given.goals
          /\ routines = Given.routines
    /\ (node = "ERROR" /\ inbox.received # <<>>) =>
          \A i \in 1..Len(inbox.received) :
              inbox.received[i].type # "userSpeech"

(* the node dropped an event that was not speech and returned with the     *)
(* text of the speech event that followed                                  *)
C29_Witness ==
    /\ node = "human"
    /\ Len(inbox.received) = 2
    /\ inbox.received[1].type # "userSpeech"
    /\ messages = <<HumanMessage(Text("hello"))>>

(* C30: when the Human-Wait node fails because no socket is registered    *)
(* for the user or because the socket closes while it waits, and when the  *)
(* handler then treats that failure, finished, the goals, the routines,    *)
(* the rows of the goals table and the stored state of the session stay    *)
(* as they were.                                                           *)
C30_TransportFaultPreservesState ==
    [][ (node' \in {"ERROR", "except"} /\ node' # node) =>
            /\ finished' = finished
            /\ goals' = goals
            /\ routines' = routines
            /\ persisted' = persisted
            /\ db_conn' = db_conn
            /\ user_states' = user_states ]_vars

(* the socket closed while the node waited, after an event that was not    *)
(* speech, in a session with a stored goal that was not finished           *)
C30_Witness ==
    /\ node = "except"
    /\ inbox.closed
    /\ inbox.received # <<>>
    /\ ~finished
    /\ user_states.goals = <<"G">>
    /\ persisted # <<>>

(* C31: after every step the titles of the goals of the session are       *)
(* pairwise distinct, routines has an entry for exactly the titles of the  *)
(* goals, and the routine of a goal that was in the session is the one it  *)
(* had.                                                                    *)
C31_TitlesDistinctRoutinesKept ==
    [][ /\ \A i, j \in 1..Len(goals') : i # j => goals'[i] # goals'[j]
        /\ DOMAIN routines' = { goals'[i] : i \in 1..Len(goals') }
        /\ \A t \in DOMAIN routines : routines'[t] = routines[t] ]_vars

(* C32: a tool whose execution changes the committed rows of the goals    *)
(* or routines table is not registered in goal_auto_tools, and is          *)
(* registered in goal_action_tools.                                        *)
C32_AutoToolsReadOnly ==
    [][ (db_conn'.goals # db_conn.goals
            \/ db_conn'.routines # db_conn.routines) =>
          \A s \in Sessions :
              InAddGoal(s) => /\ "add_goal" \notin goal_auto_tools
                              /\ "add_goal" \in goal_action_tools ]_vars

C34_RoundTrip ==
    goal_args.stage = "read" =>
        /\ goal_args.user_goals # "Error getting user goals"
        /\ goal_args.user_goals.milestones = goal_args.milestones

(* C35: when a node execution that ran a tool is followed by the end of   *)
(* the turn, and not by the reasoning node, the turn ends on a tool result *)
(* as last message, the one message appended to the messages of before.    *)
C35_ReasoningAfterTools ==
    [][ (steps' = steps + 1 /\ tool_runs' # <<>> /\ node' # "goal_ai"
            /\ node' # "ERROR") =>
          /\ node' = "END"
          /\ messages' # <<>>
          /\ IsToolResult(Last(messages'))
          /\ Len(messages') = Len(messages) + 1
          /\ SubSeq(messages', 1, Len(messages)) = messages ]_vars

(* the messages of the user, as dicts or as HumanMessage objects *)
UserMessages(msgs) == SelectSeq(msgs, LAMBDA m : m.role = "user")

C36_TrimmedHistory ==
    [][ (pending = "chat" /\ node = "END" /\ node' = "DONE") =>
          LET updated == updated_conversation_history(
                             user_states.conversation_history, messages)
              stored == user_states'.conversation_history
          IN /\ Len(stored) <= max_messages
             /\ Len(updated) <= max_messages => stored = updated
             /\ Len(updated) > max_messages =>
                   /\ stored = SubSeq(updated, Len(updated) - Len(stored) + 1,
                                      Len(updated))
                   /\ stored # <<>> => stored[1].role # "assistant" ]_vars

(* C38: in every state of the handler of a connection the run of the      *)
(* graph has executed at most one node, the reasoning node or the api      *)
(* node, and after that execution the run is over (at End, or aborted by   *)
(* an exception of the node); the run never stands at the human node or at *)
(* a tool node, and the finished flag of the run and of the stored state   *)
(* is false.                                                               *)
C38_OneNodePerTurn ==
    /\ steps <= 1
    /\ node \notin {"human", "goal_tools", "goal_actions"}
    /\ steps = 0 => node \in {"IDLE", "START", "goal_ai", "api", "DONE"}
    /\ steps = 1 => node \in {"END", "ERROR", "DONE", "ABORTED", "IDLE"}
    /\ ~ finished
    /\ ~ user_states.finished

(* a chat turn that ended after the reasoning node and was stored *)
C38_Witness ==
    /\ node = "DONE"
    /\ steps = 1
    /\ llm_call # NoCall
    /\ Len(user_states.conversation_history) >= 2

C40_NothingBeforeAuth ==
    /\ [](\A ws \in WebSockets :
            LET h == handlers[ws]
                passed == /\ h.auth_data.type = "auth"
                          /\ h.auth_data.token # "absent"
                          /\ verify_google_token(h.auth_data.token) # "none"
            IN ~ passed =>
                 /\ h.user_id = "unbound"
                 /\ h.events = 0
                 /\ h.pc = "idle"
                 /\ active_users # ws
                 /\ sockets[ws] \in {"new", "accepted", "closed"}
                 /\ h.auth_data.type # "none" => sockets[ws] = "closed")
    /\ [][ \A ws \in WebSockets :
             /\ (sockets[ws] = "accepted" /\ sockets'[ws] = "closed") =>
                   /\ active_users' = active_users
                   /\ all_states' = all_states
             /\ handlers'[ws].events # handlers[ws].events =>
                   \/ handlers'[ws].events = 0
                   \/ /\ sockets[ws] = "live"
                      /\ handlers[ws].user_id \in DOMAIN all_states
          ]_vars
    /\ [][ DOMAIN all_states' # DOMAIN all_states =>
             \E ws \in WebSockets :
                 /\ sockets[ws] = "accepted"
                 /\ sockets'[ws] = "live"
                 /\ DOMAIN all_states' =
                       DOMAIN all_states \cup {handlers'[ws].user_id} ]_vars

(* one connection was turned away for a chat message sent first and one    *)
(* for a token that does not verify, while a third authenticated and had   *)
(* an event handled                                                        *)
C40_Witness ==
    /\ \E ws \in WebSockets :
          /\ sockets[ws] = "closed"
          /\ handlers[ws].auth_data.type = "chat"
    /\ \E ws \in WebSockets :
          /\ sockets[ws] = "closed"
          /\ handlers[ws].auth_data = [type |-> "auth", token |-> "bad"]
    /\ \E ws \in WebSockets :
          /\ sockets[ws] = "live"
          /\ handlers[ws].events > 0
          /\ handlers[ws].pc = "idle"

====
